---- MODULE Spec2Model ----
(***************************************************************************)
(* Order-processing backend: the Stripe webhook pipeline                   *)
(* (handleStripeWebhook), the donation-success redirect, the idempotency   *)
(* ledger of MemStorage (isEventProcessed / markEventProcessed), the       *)
(* order store (createOrder, createDonation) and the notification          *)
(* dispatcher (sendOrderConfirmation / sendEmail).                         *)
(*                                                                         *)
(* Granularity.  The server is a single-threaded Node process: a handler   *)
(* runs without interruption until it awaits real I/O (a database query,   *)
(* a provider call, an email send).  An await on a call that does no I/O   *)
(* (the in-memory branches of MemStorage, createOrder) resumes in the      *)
(* same turn of the event loop, before any other request is served.  Each  *)
(* action below is therefore one such uninterrupted run: from the arrival  *)
(* of a request, or the completion of an I/O call, up to the next I/O call *)
(* or the response.                                                        *)
(***************************************************************************)
EXTENDS Integers, Sequences, FiniteSets, TLC

\* Number of requests (webhook deliveries, donation-success redirects, order
\* and manual-payment requests) handled in one run of the model.
MaxRequests == 2

\* The number of items added to the cart in one behaviour.
MaxCartItems == 2

\* The length of the longest amount string sent to the checkout route.
MaxAmountLength == 3

\* The length of the longest generated payment-method type code.
MaxTypeLength == 3

\* src: this.orderCounter = 1000
InitialOrderCounter == 1000

\* JavaScript's null / undefined / '' (all falsy under ||, ?. and !x).
NoValue == ""

---------------------------------------------------------------------------
(* Strings that the code inspects character by character are sequences of  *)
(* one-character strings; labels the code only compares or stores are      *)
(* TLA+ strings.                                                           *)

LowerCase == <<"a","b","c","d","e","f","g","h","i","j","k","l","m",
               "n","o","p","q","r","s","t","u","v","w","x","y","z">>
UpperCase == <<"A","B","C","D","E","F","G","H","I","J","K","L","M",
               "N","O","P","Q","R","S","T","U","V","W","X","Y","Z">>

\* String.prototype.toUpperCase on one character.
ToUpperCase(c) ==
  IF \E i \in 1..Len(LowerCase) : LowerCase[i] = c
  THEN UpperCase[CHOOSE i \in 1..Len(LowerCase) : LowerCase[i] = c]
  ELSE c

RECURSIVE Join(_)
Join(cs) == IF cs = <<>> THEN "" ELSE Head(cs) \o Join(Tail(cs))

\* pmDetails.type.charAt(0).toUpperCase() + pmDetails.type.slice(1)
Capitalize(cs) ==
  IF cs = <<>> THEN "" ELSE ToUpperCase(Head(cs)) \o Join(Tail(cs))

TypeCard == <<"c","a","r","d">>
TypeLink == <<"l","i","n","k">>
TypeKlarna == <<"k","l","a","r","n","a">>
TypeCashapp == <<"c","a","s","h","a","p","p">>
TypeUsBankAccount == <<"u","s","_","b","a","n","k","_","a","c","c","o","u","n","t">>
TypeCrypto == <<"c","r","y","p","t","o">>

\* charge?.payment_method_details absent.
NoDetails == [type |-> <<>>, wallet |-> NoValue, present |-> FALSE]

\* Lines 53-87 of handleStripeWebhook: the label of the payment method used.
PaymentMethodType(pmDetails) ==
  IF pmDetails = NoDetails THEN "Unknown"
  ELSE IF pmDetails.type = TypeCard
       THEN IF pmDetails.wallet = "apple_pay" THEN "Apple Pay"
            ELSE IF pmDetails.wallet = "google_pay" THEN "Google Pay"
            ELSE "Credit/Debit Card"
  ELSE IF pmDetails.type = TypeLink THEN "Link"
  ELSE IF pmDetails.type = TypeKlarna THEN "Klarna"
  ELSE IF pmDetails.type = TypeCashapp THEN "Cash App"
  ELSE IF pmDetails.type = TypeUsBankAccount THEN "ACH Bank Transfer"
  ELSE IF pmDetails.type = TypeCrypto THEN "Cryptocurrency"
  ELSE Capitalize(pmDetails.type)

\* a || b || c on strings.
OrElse(a, b) == IF a # NoValue THEN a ELSE b

\* ((session.amount_total || 0) / 100).toString(), for a total in cents.
AmountString(cents) ==
  LET whole == cents \div 100
      frac  == cents % 100
  IN  IF frac = 0 THEN ToString(whole)
      ELSE IF frac % 10 = 0 THEN ToString(whole) \o "." \o ToString(frac \div 10)
      ELSE IF frac < 10 THEN ToString(whole) \o ".0" \o ToString(frac)
      ELSE ToString(whole) \o "." \o ToString(frac)

\* Lines 90-96 of handleStripeWebhook.
OrderData(session, paymentMethodType) ==
  [customerName  |-> OrElse(session.metadata_customerName,
                            OrElse(session.details_name, "Unknown")),
   customerEmail |-> OrElse(session.details_email,
                            OrElse(session.customer_email, "")),
   amount        |-> AmountString(session.amount_total),
   paymentMethod |-> paymentMethodType,
   description   |-> OrElse(session.metadata_description, "Project V8 Order")]

---------------------------------------------------------------------------
(* The provider's events.  An event id names one event: every delivery of  *)
(* it carries the same kind and the same session.                          *)

CheckoutCompleted == "checkout.session.completed"

EventIds == {"evt_1", "evt_2", "evt_3"}

EventOf(e) ==
  CASE e = "evt_1" ->
         [id |-> e, type |-> CheckoutCompleted,
          session |-> [id |-> "cs_1", payment_intent |-> "pi_1",
                       metadata_customerName |-> "Ada",
                       metadata_description |-> "Discord bot",
                       details_name |-> "A. Lovelace",
                       details_email |-> "ada@checkout.example",
                       customer_email |-> "ada@intent.example",
                       amount_total |-> 1999]]
    [] e = "evt_2" ->
         [id |-> e, type |-> CheckoutCompleted,
          session |-> [id |-> "cs_2", payment_intent |-> NoValue,
                       metadata_customerName |-> NoValue,
                       metadata_description |-> NoValue,
                       details_name |-> NoValue,
                       details_email |-> NoValue,
                       customer_email |-> NoValue,
                       amount_total |-> 0]]
    [] OTHER ->
         [id |-> e, type |-> "payment_intent.created",
          session |-> [id |-> NoValue, payment_intent |-> "pi_3",
                       metadata_customerName |-> NoValue,
                       metadata_description |-> NoValue,
                       details_name |-> NoValue,
                       details_email |-> NoValue,
                       customer_email |-> NoValue,
                       amount_total |-> 0]]

\* What stripe.paymentIntents.retrieve answers for a payment intent:
\* latest_charge.payment_method_details.
ChargeDetails(paymentIntent) ==
  IF paymentIntent = "pi_1"
  THEN [type |-> TypeCard, wallet |-> "apple_pay", present |-> TRUE]
  ELSE NoDetails

---------------------------------------------------------------------------
VARIABLES
  stripeConfigured,  \* the module-level `stripe` client is not null
  webhookSecret,     \* process.env.STRIPE_WEBHOOK_SECRET is set
  dbConfigured,      \* getDb() returns a database handle
  webhookEvents,     \* the durable table webhookEvents: set of event ids
  processedEvents,   \* MemStorage.processedEvents
  orders,            \* MemStorage.orders, in insertion order
  orderCounter,      \* MemStorage.orderCounter
  donations,         \* MemStorage.donations, in insertion order
  emails,            \* the messages resend.emails.send has accepted
  req,               \* the requests being handled
  dbFaulted,         \* history: some database call has failed
  ledgerCall,        \* ledger driver: the last ledger call and its answers
  memoryOnly,        \* ledger driver: processedEvents of a store without db
  markReturned,      \* ledger driver: ids whose markEventProcessed returned
  cartItems,         \* MemStorage.cartItems: the set of its values
  cartIds,           \* the number of ids randomUUID has given to cart items
  apiCall,           \* the last request to a one-step route and its answer
  checkoutCall,      \* the last createStripeCheckoutSession and its answer
  customOrders,      \* MemStorage.customOrders, in insertion order
  contactSubmissions,\* MemStorage.contactSubmissions, in insertion order
  orderDataCall      \* the last derivation of an order from a session

vars == <<stripeConfigured, webhookSecret, dbConfigured, webhookEvents,
          processedEvents, orders, orderCounter, donations, emails, req,
          dbFaulted,
          ledgerCall, memoryOnly, markReturned, cartItems, cartIds, apiCall,
          checkoutCall, customOrders, contactSubmissions, orderDataCall>>

config == <<stripeConfigured, webhookSecret, dbConfigured>>
ledger == <<webhookEvents, processedEvents>>
store  == <<orders, orderCounter, donations>>
driver == <<ledgerCall, memoryOnly, markReturned>>
api    == <<cartItems, cartIds, apiCall, checkoutCall>>
forms  == <<customOrders, contactSubmissions>>

---------------------------------------------------------------------------
(* Idempotency ledger: MemStorage.isEventProcessed / markEventProcessed.   *)
(* hasDb is getDb() # null; the outcome of the one database call each      *)
(* makes is an input.                                                      *)

\* `donation_${session_id}`
DonationMarker(sessionId) == "donation_" \o sessionId

LedgerIds == EventIds \cup {DonationMarker("cs_d1")}

\* db.select().from(webhookEvents).where(eq(id, eventId)).limit(1), or the
\* in-memory set when there is no database or the query throws.
IsEventProcessed(eventId, hasDb, readOk, mem, table) ==
  IF ~hasDb THEN eventId \in mem
  ELSE IF readOk THEN eventId \in table
  ELSE eventId \in mem

\* What db.insert(webhookEvents).values({id}) can do: the primary key makes a
\* second insert of an id fail with a duplicate-key error; any call can fail
\* with another error.
InsertOutcomes(eventId, table) ==
  IF eventId \in table THEN {"duplicate", "error"} ELSE {"ok", "error"}

\* Mutant of MarkEventProcessed: the catch rethrows what is not a
\* duplicate-key error instead of falling back to the in-memory set.
MarkEventProcessed_Rethrow(eventId, hasDb, outcome, mem, table) ==
  IF ~hasDb THEN [mem |-> mem \cup {eventId}, table |-> table, raised |-> FALSE]
  ELSE IF outcome = "ok"
       THEN [mem |-> mem \cup {eventId}, table |-> table \cup {eventId},
             raised |-> FALSE]
  ELSE IF outcome = "duplicate"
       THEN [mem |-> mem, table |-> table, raised |-> FALSE]
  ELSE [mem |-> mem, table |-> table, raised |-> TRUE]

\* Mutant of MarkEventProcessed: the catch logs the database error and
\* records nothing.
MarkEventProcessed_NoFallback(eventId, hasDb, outcome, mem, table) ==
  IF ~hasDb THEN [mem |-> mem \cup {eventId}, table |-> table, raised |-> FALSE]
  ELSE IF outcome = "ok"
       THEN [mem |-> mem \cup {eventId}, table |-> table \cup {eventId},
             raised |-> FALSE]
  ELSE [mem |-> mem, table |-> table, raised |-> FALSE]

\* The store after markEventProcessed(eventId), and whether it threw.
MarkEventProcessed(eventId, hasDb, outcome, mem, table) ==
  IF ~hasDb THEN [mem |-> mem \cup {eventId}, table |-> table, raised |-> FALSE]
  ELSE IF outcome = "ok"
       THEN [mem |-> mem \cup {eventId}, table |-> table \cup {eventId},
             raised |-> FALSE]
  ELSE IF outcome = "duplicate"
       THEN [mem |-> mem, table |-> table, raised |-> FALSE]
  ELSE [mem |-> mem \cup {eventId}, table |-> table, raised |-> FALSE]

---------------------------------------------------------------------------
(* Ledger driver: one store, called directly, one call after the other;    *)
(* beside it a store without database that receives the same calls.        *)

NoCall == [op |-> NoValue, id |-> NoValue, db |-> NoValue,
           answer |-> FALSE, reference |-> FALSE, raised |-> FALSE]

CallIsEventProcessed(e, readOk) ==
  /\ dbConfigured \/ readOk
  /\ ledgerCall' =
       [op |-> "isEventProcessed", id |-> e,
        db |-> IF ~dbConfigured THEN "none" ELSE IF readOk THEN "ok" ELSE "error",
        answer |-> IsEventProcessed(e, dbConfigured, readOk, processedEvents,
                                    webhookEvents),
        reference |-> IsEventProcessed(e, FALSE, TRUE, memoryOnly, {}),
        raised |-> FALSE]
  /\ UNCHANGED <<config, api, forms, orderDataCall, ledger, store, emails,
                 req, dbFaulted, memoryOnly, markReturned>>

CallMarkEventProcessed(e, outcome) ==
  LET after == MarkEventProcessed(e, dbConfigured, outcome, processedEvents,
                                  webhookEvents)
      ref   == MarkEventProcessed(e, FALSE, "ok", memoryOnly, {})
  IN  /\ IF dbConfigured THEN outcome \in InsertOutcomes(e, webhookEvents)
                         ELSE outcome = "ok"
      /\ processedEvents' = after.mem
      /\ webhookEvents' = after.table
      /\ memoryOnly' = ref.mem
      /\ markReturned' = IF after.raised THEN markReturned
                         ELSE markReturned \cup {e}
      /\ ledgerCall' = [op |-> "markEventProcessed", id |-> e,
                        db |-> IF dbConfigured THEN outcome ELSE "none",
                        answer |-> FALSE, reference |-> FALSE,
                        raised |-> after.raised]
      /\ UNCHANGED <<config, api, forms, orderDataCall, store, emails, req,
                     dbFaulted>>

---------------------------------------------------------------------------
(* Order store and notification dispatcher.                                *)

\* MemStorage.generateOrderNumber, for the counter after the increment.
OrderNumber(counter) == "ORD-" \o ToString(counter)

\* Mutant of NewOrder: the number does not follow the counter.
NewOrder_FirstNumber(insertOrder, counter, position) ==
  [id            |-> position,
   orderNumber   |-> OrderNumber(InitialOrderCounter + 1),
   customerName  |-> insertOrder.customerName,
   customerEmail |-> insertOrder.customerEmail,
   amount        |-> insertOrder.amount,
   paymentMethod |-> insertOrder.paymentMethod,
   description   |-> insertOrder.description,
   rating        |-> NoValue,
   createdAt     |-> position]

\* MemStorage.createOrder: the record stored for insertOrder.  randomUUID is
\* modelled by the position of the order in the store, and new Date() by
\* the rank of the creation among the creations of the run.
NewOrder(insertOrder, counter, position) ==
  [id            |-> position,
   orderNumber   |-> OrderNumber(counter + 1),
   customerName  |-> insertOrder.customerName,
   customerEmail |-> insertOrder.customerEmail,
   amount        |-> insertOrder.amount,
   paymentMethod |-> insertOrder.paymentMethod,
   description   |-> insertOrder.description,
   rating        |-> NoValue,
   createdAt     |-> position]

\* sendOrderConfirmation: the recipient of its step-th sendEmail call.
Recipient(step, customerEmail) ==
  IF step = 1 THEN customerEmail
  ELSE IF step = 2 THEN "allouzimohammed53@gmail.com"
  ELSE "orders@driftv8.xyz"

\* The number of sendEmail calls sendOrderConfirmation makes.
ConfirmationSends == 3

\* The number of sends of sendCustomOrderNotification and of
\* sendContactNotification.
CustomOrderSends == 3
ContactSends == 2

---------------------------------------------------------------------------
(* handleStripeWebhook.  req[r] is one delivery: where its handler is      *)
(* waiting (pc), what it was sent, what it answered, and a record of what  *)
(* it has done so far: known (the ledger held the event id when the        *)
(* delivery arrived), checked (isEventProcessed answered), passed (it      *)
(* answered false), marked (markEventProcessed returned), retrieved (the   *)
(* provider was asked for the payment intent), orderNumber (the order it   *)
(* created), emailFailed (a send of its confirmation failed).              *)

Requests == 1..MaxRequests

\* The requests that are webhook deliveries.
Deliveries == {r \in Requests : req[r].kind = "webhook"}

Signatures == {"missing", "bad", "valid"}

NoResponse == [status |-> 0, received |-> FALSE, message |-> NoValue,
               location |-> NoValue]

IdleRequest ==
  [kind |-> NoValue, pc |-> "idle", sig |-> NoValue, event |-> NoValue,
   session |-> NoValue, response |-> NoResponse, donation |-> 0,
   known |-> FALSE, checked |-> FALSE, passed |-> FALSE, marked |-> FALSE,
   retrieved |-> FALSE,
   orderNumber |-> NoValue, emailStep |-> 0, emailFailed |-> FALSE,
   priorFailures |-> {}, record |-> 0]

\* Mutant of Respond: the response is written and the handler goes on from
\* where it was instead of returning.
Respond_NotReturned(r, q, status, received, message) ==
  req' = [req EXCEPT ![r] =
            [q EXCEPT !.response = [status |-> status, received |-> received,
                                    message |-> message,
                                    location |-> NoValue]]]

\* res.status(s).json(...) / res.status(s).send(...) / res.json(...)
Respond(r, q, status, received, message) ==
  req' = [req EXCEPT ![r] =
            [q EXCEPT !.pc = "done",
                      !.response = [status |-> status, received |-> received,
                                    message |-> message,
                                    location |-> NoValue]]]

\* Lines 98-101: createOrder, then sendOrderConfirmation up to its first
\* resend.emails.send.
MaterializeOrder(r, q, paymentMethodType) ==
  LET orderData == OrderData(EventOf(q.event).session, paymentMethodType)
      order     == NewOrder(orderData, orderCounter, Len(orders) + 1)
  IN  /\ orders' = Append(orders, order)
      /\ orderCounter' = orderCounter + 1
      /\ req' = [req EXCEPT ![r] =
                   [q EXCEPT !.pc = "email", !.orderNumber = order.orderNumber,
                             !.emailStep = 1]]
      /\ UNCHANGED <<donations, emails>>

\* Mutant of IsPaymentCompleted: the handler does not look at the kind.
IsPaymentCompleted_Any(type) == TRUE

\* event.type === 'checkout.session.completed'
IsPaymentCompleted(type) == type = CheckoutCompleted

\* Lines 48-58 and 113: after markEventProcessed has returned.
AfterMark(r, q) ==
  LET event == EventOf(q.event) IN
  IF IsPaymentCompleted(event.type)
  THEN IF event.session.payment_intent # NoValue
       THEN /\ req' = [req EXCEPT ![r] =
                         [q EXCEPT !.pc = "retrieve", !.retrieved = TRUE]]
            /\ UNCHANGED <<store, emails>>
       ELSE MaterializeOrder(r, q, "Unknown")
  ELSE /\ Respond(r, q, 200, TRUE, NoValue)
       /\ UNCHANGED <<store, emails>>

\* Mutant of AfterCheck: the handler goes on to the order without calling
\* markEventProcessed first.
AfterCheck_NoMark(r, q, isProcessed) ==
  IF isProcessed
  THEN /\ Respond(r, [q EXCEPT !.checked = TRUE], 200, TRUE,
                  "Event already processed")
       /\ UNCHANGED <<ledger, store, emails>>
  ELSE /\ AfterMark(r, [q EXCEPT !.checked = TRUE, !.passed = TRUE])
       /\ UNCHANGED ledger

\* Lines 39-46: the answer of isEventProcessed is in; on a new event call
\* markEventProcessed, which without a database completes at once.
AfterCheck(r, q, isProcessed) ==
  IF isProcessed
  THEN /\ Respond(r, [q EXCEPT !.checked = TRUE], 200, TRUE,
                  "Event already processed")
       /\ UNCHANGED <<ledger, store, emails>>
  ELSE IF ~dbConfigured
  THEN LET after == MarkEventProcessed(q.event, FALSE, "ok", processedEvents,
                                       webhookEvents)
       IN  /\ processedEvents' = after.mem
           /\ webhookEvents' = after.table
           /\ AfterMark(r, [q EXCEPT !.checked = TRUE, !.passed = TRUE,
                                     !.marked = TRUE])
  ELSE /\ req' = [req EXCEPT ![r] =
                    [q EXCEPT !.pc = "insert", !.checked = TRUE,
                              !.passed = TRUE]]
       /\ UNCHANGED <<ledger, store, emails>>

\* The ledger holds a record for the id, in the table or in the set.
Recorded(e) == e \in webhookEvents \cup processedEvents

\* Mutant of Unverifiable: a signature that fails verification is let through.
Unverifiable_AcceptsBad(sig, secret) == sig = "missing" \/ ~secret

\* Lines 21-35: the request cannot be verified.
Unverifiable(sig, secret) == sig = "missing" \/ ~secret \/ sig = "bad"

\* The deliveries of the event that the outer catch (lines 114-117) has
\* answered so far.
FailedDeliveries(e) ==
  {s \in Requests : /\ req[s].kind = "webhook"
                    /\ req[s].event = e
                    /\ req[s].pc = "done"
                    /\ req[s].response.status = 500}

\* Lines 13-38: a delivery arrives.  Requests are numbered in the order of
\* their arrival.  On the 503 and 400 paths the body is never parsed, so the
\* event it carries plays no part and one event stands for all.
WhReceive(r, sig, e) ==
  /\ req[r].pc = "idle"
  /\ \A s \in Requests : s < r => req[s].pc # "idle"
  /\ LET q == [req[r] EXCEPT !.kind = "webhook", !.sig = sig] IN
     IF ~stripeConfigured
     THEN /\ e = "evt_1"
          /\ Respond(r, q, 503, FALSE, "Stripe is not configured")
          /\ UNCHANGED <<ledger, store, emails>>
     ELSE IF Unverifiable(sig, webhookSecret)
     THEN /\ e = "evt_1"
          /\ Respond(r, q, 400, FALSE,
                     IF sig = "missing" \/ ~webhookSecret
                     THEN "Webhook error: Missing signature"
                     ELSE "Webhook Error")
          /\ UNCHANGED <<ledger, store, emails>>
     ELSE IF ~dbConfigured
     THEN AfterCheck(r, [q EXCEPT !.event = e, !.known = Recorded(e),
                                  !.priorFailures = FailedDeliveries(e)],
                     IsEventProcessed(e, FALSE, TRUE, processedEvents,
                                      webhookEvents))
     ELSE /\ req' = [req EXCEPT ![r] =
                       [q EXCEPT !.event = e, !.known = Recorded(e),
                                 !.priorFailures = FailedDeliveries(e),
                                 !.pc = "select"]]
          /\ UNCHANGED <<ledger, store, emails>>
  /\ UNCHANGED <<config, api, forms, orderDataCall, dbFaulted, driver>>

\* The database answers the query of isEventProcessed (or the query throws).
WhSelect(r, readOk) ==
  /\ req[r].kind = "webhook"
  /\ req[r].pc = "select"
  /\ AfterCheck(r, req[r],
                IsEventProcessed(req[r].event, TRUE, readOk, processedEvents,
                                 webhookEvents))
  /\ dbFaulted' = (dbFaulted \/ ~readOk)
  /\ UNCHANGED <<config, api, forms, orderDataCall, driver>>

\* The database answers the insert of markEventProcessed (or it throws).
WhInsert(r, outcome) ==
  /\ req[r].kind = "webhook"
  /\ req[r].pc = "insert"
  /\ outcome \in InsertOutcomes(req[r].event, webhookEvents)
  /\ LET after == MarkEventProcessed(req[r].event, TRUE, outcome,
                                     processedEvents, webhookEvents)
     IN  /\ processedEvents' = after.mem
         /\ webhookEvents' = after.table
         /\ IF after.raised
            THEN /\ Respond(r, req[r], 500, FALSE, "Webhook handler failed")
                 /\ UNCHANGED <<store, emails>>
            ELSE AfterMark(r, [req[r] EXCEPT !.marked = TRUE])
  /\ dbFaulted' = (dbFaulted \/ outcome = "error")
  /\ UNCHANGED <<config, api, forms, orderDataCall, driver>>

\* stripe.paymentIntents.retrieve answers, or throws into the outer catch.
WhRetrieve(r, ok) ==
  /\ req[r].kind = "webhook"
  /\ req[r].pc = "retrieve"
  /\ IF ok
     THEN MaterializeOrder(r, req[r],
            PaymentMethodType(
              ChargeDetails(EventOf(req[r].event).session.payment_intent)))
     ELSE /\ Respond(r, req[r], 500, FALSE, "Webhook handler failed")
          /\ UNCHANGED <<store, emails>>
  /\ UNCHANGED <<config, api, forms, orderDataCall, ledger, dbFaulted, driver>>

\* Mutant of EmailFailure: the outer catch answers 400 instead of 500.
EmailFailure_As400(r, q) ==
  Respond(r, [q EXCEPT !.emailFailed = TRUE], 400, FALSE,
          "Webhook handler failed")

\* Mutant of EmailFailure: sendOrderConfirmation swallows the failure of a
\* send and goes on to the next one.
EmailFailure_Continue(r, q) ==
  IF q.emailStep < ConfirmationSends
  THEN req' = [req EXCEPT ![r] =
                 [q EXCEPT !.emailFailed = TRUE, !.emailStep = q.emailStep + 1]]
  ELSE Respond(r, [q EXCEPT !.emailFailed = TRUE], 500, FALSE,
               "Webhook handler failed")

\* What a failed send does to the delivery: sendEmail logs and rethrows,
\* sendOrderConfirmation lets it pass, the handler's outer catch answers.
EmailFailure(r, q) ==
  Respond(r, [q EXCEPT !.emailFailed = TRUE], 500, FALSE,
          "Webhook handler failed")

\* resend.emails.send of the current step of sendOrderConfirmation answers.
WhEmail(r, ok) ==
  /\ req[r].kind = "webhook"
  /\ req[r].pc = "email"
  /\ LET q == req[r]
         order == CHOOSE o \in {orders[i] : i \in 1..Len(orders)} :
                    o.orderNumber = q.orderNumber
     IN  IF ok
         THEN /\ emails' = emails \cup
                             {[to |-> Recipient(q.emailStep, order.customerEmail),
                               step |-> q.emailStep,
                               orderNumber |-> q.orderNumber]}
              /\ IF q.emailStep < ConfirmationSends
                 THEN req' = [req EXCEPT ![r].emailStep = q.emailStep + 1]
                 ELSE Respond(r, q, 200, TRUE, NoValue)
         ELSE /\ EmailFailure(r, q)
              /\ UNCHANGED emails
  /\ UNCHANGED <<config, api, forms, orderDataCall, ledger, store, dbFaulted, driver>>

---------------------------------------------------------------------------
(* GET /stripe/donation-success.  req[r].session is the session_id of the  *)
(* query, req[r].donation the position of the donation the request         *)
(* created (0: none).                                                      *)

DonationSessionIds == {"cs_d1", "cs_d2"}

\* Session ids whose sessions fail one of the handler's payment checks.
RefusedSessionIds == {"cs_d2", "cs_d3", "cs_d4", "cs_d5"}

\* What stripe.checkout.sessions.retrieve answers for a session id.
DonationSessionOf(sessionId) ==
  IF sessionId = "cs_d1"
  THEN [payment_status |-> "paid", metadata_type |-> "donation",
        metadata_donorName |-> "Grace",
        metadata_donorEmail |-> "grace@donor.example",
        metadata_message |-> NoValue, amount_total |-> 500]
  ELSE IF sessionId = "cs_d3"
  THEN [payment_status |-> "paid", metadata_type |-> "order",
        metadata_donorName |-> "Kurt",
        metadata_donorEmail |-> "kurt@donor.example",
        metadata_message |-> NoValue, amount_total |-> 700]
  ELSE IF sessionId = "cs_d4"
  THEN [payment_status |-> "paid", metadata_type |-> "donation",
        metadata_donorName |-> NoValue,
        metadata_donorEmail |-> "emmy@donor.example",
        metadata_message |-> NoValue, amount_total |-> 900]
  ELSE IF sessionId = "cs_d5"
  THEN [payment_status |-> "paid", metadata_type |-> "donation",
        metadata_donorName |-> "Sofia",
        metadata_donorEmail |-> NoValue,
        metadata_message |-> "Thanks", amount_total |-> 1100]
  ELSE [payment_status |-> "unpaid", metadata_type |-> "donation",
        metadata_donorName |-> "Alan",
        metadata_donorEmail |-> "alan@donor.example",
        metadata_message |-> NoValue, amount_total |-> 2500]

\* Mutant of DonationAcceptable: the donor data of the session is not
\* looked at.
DonationAcceptable_PaidOnly(session) ==
  ~(\/ session.payment_status # "paid"
    \/ session.metadata_type # "donation")

\* The condition under which the handler goes on to save the donation.
DonationAcceptable(session) ==
  ~(\/ session.payment_status # "paid"
    \/ session.metadata_type # "donation"
    \/ session.metadata_donorName = NoValue
    \/ session.metadata_donorEmail = NoValue)

\* session.amount_total ? (session.amount_total / 100).toFixed(2) : "0"
AmountPaid(cents) ==
  IF cents = 0 THEN "0"
  ELSE ToString(cents \div 100) \o "."
         \o ToString((cents % 100) \div 10) \o ToString(cents % 10)

\* MemStorage.createDonation: the record stored for the session's data.
NewDonation(session, position) ==
  [id         |-> position,
   donorName  |-> session.metadata_donorName,
   donorEmail |-> session.metadata_donorEmail,
   amount     |-> AmountPaid(session.amount_total),
   message    |-> session.metadata_message]

\* Mutant of Redirect: the handler answers with an error page.
Redirect_RawError(r, q, location) ==
  req' = [req EXCEPT ![r] =
            [q EXCEPT !.pc = "done",
                      !.response = [status |-> 500, received |-> FALSE,
                                    message |-> location,
                                    location |-> NoValue]]]

\* res.redirect(location)
Redirect(r, q, location) ==
  req' = [req EXCEPT ![r] =
            [q EXCEPT !.pc = "done",
                      !.response = [status |-> 302, received |-> FALSE,
                                    message |-> NoValue,
                                    location |-> location]]]

\* After the idempotency check: redirect at once on a processed session,
\* else build the Stripe client (which throws without a secret key) and ask
\* the provider for the session.
DnAfterCheck(r, q, alreadyProcessed) ==
  /\ IF alreadyProcessed
     THEN Redirect(r, [q EXCEPT !.checked = TRUE], "/?donation_success=true")
     ELSE IF ~stripeConfigured
     THEN Redirect(r, [q EXCEPT !.checked = TRUE, !.passed = TRUE],
                   "/?donation_error=processing_failed")
     ELSE req' = [req EXCEPT ![r] =
                    [q EXCEPT !.checked = TRUE, !.passed = TRUE,
                              !.retrieved = TRUE, !.pc = "retrieve"]]
  /\ UNCHANGED <<ledger, store, emails>>

\* The request arrives, with or without a session_id.
DnReceive(r, sessionId) ==
  /\ req[r].pc = "idle"
  /\ \A s \in Requests : s < r => req[s].pc # "idle"
  /\ LET q == [req[r] EXCEPT !.kind = "donation", !.session = sessionId,
                             !.known = (sessionId # NoValue
                                        /\ Recorded(DonationMarker(sessionId)))]
     IN
     IF sessionId = NoValue
     THEN /\ Redirect(r, q, "/?donation_error=missing_session")
          /\ UNCHANGED <<ledger, store, emails>>
     ELSE IF ~dbConfigured
     THEN DnAfterCheck(r, q,
                       IsEventProcessed(DonationMarker(sessionId), FALSE, TRUE,
                                        processedEvents, webhookEvents))
     ELSE /\ req' = [req EXCEPT ![r] = [q EXCEPT !.pc = "select"]]
          /\ UNCHANGED <<ledger, store, emails>>
  /\ UNCHANGED <<config, api, forms, orderDataCall, dbFaulted, driver>>

\* The database answers the query of isEventProcessed (or the query throws).
DnSelect(r, readOk) ==
  /\ req[r].kind = "donation"
  /\ req[r].pc = "select"
  /\ DnAfterCheck(r, req[r],
                  IsEventProcessed(DonationMarker(req[r].session), TRUE, readOk,
                                   processedEvents, webhookEvents))
  /\ dbFaulted' = (dbFaulted \/ ~readOk)
  /\ UNCHANGED <<config, api, forms, orderDataCall, driver>>

\* The provider answers the retrieval of the session (or the call throws);
\* schemaOk is the verdict of insertDonationSchema.parse on the session's
\* donor data.  Then createDonation, then markEventProcessed.
DnRetrieve(r, ok, schemaOk) ==
  /\ req[r].kind = "donation"
  /\ req[r].pc = "retrieve"
  /\ LET q == req[r]
         session == DonationSessionOf(q.session)
         marker == DonationMarker(q.session)
         saved == [q EXCEPT !.donation = Len(donations) + 1]
     IN
     IF ~ok
     THEN /\ schemaOk
          /\ Redirect(r, q, "/?donation_error=processing_failed")
          /\ UNCHANGED <<ledger, store, emails>>
     ELSE IF ~DonationAcceptable(session)
     THEN /\ schemaOk
          /\ Redirect(r, q, "/?donation_error=payment_failed")
          /\ UNCHANGED <<ledger, store, emails>>
     ELSE IF ~schemaOk
     THEN /\ Redirect(r, q, "/?donation_error=save_failed")
          /\ UNCHANGED <<ledger, store, emails>>
     ELSE /\ donations' = Append(donations,
                                 NewDonation(session, Len(donations) + 1))
          /\ UNCHANGED <<orders, orderCounter, emails>>
          /\ IF ~dbConfigured
             THEN LET after == MarkEventProcessed(marker, FALSE, "ok",
                                                  processedEvents, webhookEvents)
                  IN  /\ processedEvents' = after.mem
                      /\ webhookEvents' = after.table
                      /\ Redirect(r, [saved EXCEPT !.marked = TRUE],
                                  "/?donation_success=true")
             ELSE /\ req' = [req EXCEPT ![r] = [saved EXCEPT !.pc = "insert"]]
                  /\ UNCHANGED ledger
  /\ UNCHANGED <<config, api, forms, orderDataCall, dbFaulted, driver>>

\* The database answers the insert of markEventProcessed (or it throws).
DnInsert(r, outcome) ==
  /\ req[r].kind = "donation"
  /\ req[r].pc = "insert"
  /\ outcome \in InsertOutcomes(DonationMarker(req[r].session), webhookEvents)
  /\ LET after == MarkEventProcessed(DonationMarker(req[r].session), TRUE,
                                     outcome, processedEvents, webhookEvents)
     IN  /\ processedEvents' = after.mem
         /\ webhookEvents' = after.table
         /\ IF after.raised
            THEN Redirect(r, req[r], "/?donation_error=save_failed")
            ELSE Redirect(r, [req[r] EXCEPT !.marked = TRUE],
                          "/?donation_success=true")
  /\ dbFaulted' = (dbFaulted \/ outcome = "error")
  /\ UNCHANGED <<config, api, forms, orderDataCall, store, emails, driver>>

---------------------------------------------------------------------------
(* Lines 52-96 of handleStripeWebhook applied to a session and the charge  *)
(* details of its payment intent, for sessions and details drawn from      *)
(* bounded sets.                                                           *)

\* A type code no branch of the normalisation names.
TypePaypal == <<"p","a","y","p","a","l">>

RecognizedTypes ==
  {TypeCard, TypeLink, TypeKlarna, TypeCashapp, TypeUsBankAccount, TypeCrypto}

\* Type codes: the recognized ones, and every string of up to MaxTypeLength
\* characters over a small alphabet.
TypeAlphabet == {"a", "x", "_"}
TypeCodes ==
  RecognizedTypes \cup {TypePaypal}
    \cup UNION {[1..n -> TypeAlphabet] : n \in 0..MaxTypeLength}

\* pmDetails.card?.wallet?.type
WalletTypes == {NoValue, "apple_pay", "google_pay", "samsung_pay"}

DetailInputs ==
  {[type |-> t, wallet |-> w, present |-> TRUE] :
     t \in TypeCodes, w \in WalletTypes} \cup {NoDetails}

\* session.amount_total, in minor units.
AmountTotals == {0, 5, 1999}

\* Sessions of payment-completed events.  metadata_customerEmail is a
\* customerEmail key in the session's metadata.
SessionInputs ==
  {[id |-> "cs_1", payment_intent |-> pi,
    metadata_customerName |-> mn, metadata_customerEmail |-> me,
    metadata_description |-> NoValue,
    details_name |-> dn, details_email |-> de, customer_email |-> ce,
    amount_total |-> total] :
     pi \in {NoValue, "pi_1"}, mn \in {NoValue, "Ada"},
     me \in {NoValue, "ada@order.example"}, dn \in {NoValue, "A. Lovelace"},
     de \in {NoValue, "ada@checkout.example"},
     ce \in {NoValue, "ada@intent.example"}, total \in AmountTotals}

\* The session the details are tried on, and the details the sessions are
\* tried with.
LabelSession ==
  CHOOSE session \in SessionInputs :
    /\ session.payment_intent = "pi_1"
    /\ session.metadata_customerName = "Ada"
    /\ session.metadata_customerEmail = NoValue
    /\ session.details_name = NoValue
    /\ session.details_email = "ada@checkout.example"
    /\ session.customer_email = NoValue
    /\ session.amount_total = 1999
WalletDetails == [type |-> TypeCard, wallet |-> "google_pay", present |-> TRUE]

\* Mutant of LabelOf: the wallet of a card payment is not looked at.
LabelOf_PlainCard(session, pmDetails) ==
  IF session.payment_intent # NoValue
  THEN PaymentMethodType([pmDetails EXCEPT !.wallet = NoValue])
  ELSE "Unknown"

\* Mutant of LabelOf: an unrecognized type code is kept as it is.
LabelOf_RawType(session, pmDetails) ==
  IF session.payment_intent = NoValue \/ ~pmDetails.present THEN "Unknown"
  ELSE IF pmDetails.type \in RecognizedTypes THEN PaymentMethodType(pmDetails)
  ELSE Join(pmDetails.type)

\* Lines 52-87: 'Unknown' unless the session has a payment intent, whose
\* charge details are then normalised.
LabelOf(session, pmDetails) ==
  IF session.payment_intent # NoValue
  THEN PaymentMethodType(pmDetails)
  ELSE "Unknown"

NoOrderDataCall ==
  [made |-> FALSE, session |-> LabelSession, pmDetails |-> NoDetails,
   orderData |-> OrderData(LabelSession, "Unknown")]

\* Lines 52-96 for one session and the details its payment intent carries.
DeriveOrderData(session, pmDetails) ==
  /\ orderDataCall' =
       [made |-> TRUE, session |-> session, pmDetails |-> pmDetails,
        orderData |-> OrderData(session, LabelOf(session, pmDetails))]
  /\ UNCHANGED <<config, api, forms, ledger, store, emails, req, dbFaulted,
                 driver>>

---------------------------------------------------------------------------
(* The REST routes over the store.  A JSON value of a request body is      *)
(* modelled by its type and, for a number, its value in tenths, so that    *)
(* numbers with a fractional part are among the inputs.                    *)

JsonNumber(tenths) == [type |-> "number", tenths |-> tenths]
JsonString == [type |-> "string", tenths |-> 0]
JsonUndefined == [type |-> "undefined", tenths |-> 0]

\* Number.prototype.toString of a number given in tenths.
NumberToString(tenths) ==
  LET magnitude == IF tenths < 0 THEN 0 - tenths ELSE tenths
      sign      == IF tenths < 0 THEN "-" ELSE ""
  IN  IF magnitude % 10 = 0
      THEN sign \o ToString(magnitude \div 10)
      ELSE sign \o ToString(magnitude \div 10) \o "." \o ToString(magnitude % 10)

NoApiCall ==
  [route |-> NoValue, id |-> 0, input |-> JsonUndefined, status |-> 0,
   body |-> {}, found |-> FALSE]

\* The answer of a one-step route: its status and the records of its body;
\* found records whether the store held the id of the request.
Answer(route, id, input, status, body, found) ==
  apiCall' = [route |-> route, id |-> id, input |-> input, status |-> status,
              body |-> body, found |-> found]

\* Bodies of POST /api/orders; insertOrderSchema.parse accepts or rejects
\* them (schemaOk).  The second body carries an order number of the caller's.
OrderBodies ==
  {[customerName |-> "Edsger", customerEmail |-> "edsger@customer.example",
    amount |-> "25.00", paymentMethod |-> "Cash App",
    description |-> "Decal", orderNumber |-> NoValue],
   [customerName |-> "Barbara", customerEmail |-> "barbara@customer.example",
    amount |-> "40.00", paymentMethod |-> "Cryptocurrency",
    description |-> "Poster", orderNumber |-> "ORD-7"]}

\* Bodies of POST /api/payment/manual.
ManualBodies ==
  {[paymentMethod |-> "cashapp", customerName |-> "Tony",
    customerEmail |-> "tony@customer.example", amount |-> JsonNumber(155),
    description |-> "Sticker"],
   [paymentMethod |-> "crypto", customerName |-> "Leslie",
    customerEmail |-> "leslie@customer.example", amount |-> JsonUndefined,
    description |-> "Sticker"],
   [paymentMethod |-> "paypal", customerName |-> "Robin",
    customerEmail |-> "robin@customer.example", amount |-> JsonNumber(100),
    description |-> "Sticker"]}

\* storage.createOrder(orderData), then sendOrderConfirmation up to its
\* first resend.emails.send.
CreateOrder(r, q, orderData) ==
  LET order == NewOrder(orderData, orderCounter, Len(orders) + 1)
  IN  /\ orders' = Append(orders, order)
      /\ orderCounter' = orderCounter + 1
      /\ req' = [req EXCEPT ![r] =
                   [q EXCEPT !.pc = "email", !.orderNumber = order.orderNumber,
                             !.emailStep = 1]]
      /\ UNCHANGED <<donations, emails>>

\* POST /api/orders arrives: validation, createOrder.
PostOrder(r, body, schemaOk) ==
  /\ req[r].pc = "idle"
  /\ \A s \in Requests : s < r => req[s].pc # "idle"
  /\ LET q == [req[r] EXCEPT !.kind = "order"] IN
     IF ~schemaOk
     THEN /\ Respond(r, q, 400, FALSE, "Invalid order data")
          /\ UNCHANGED <<store, emails>>
     ELSE CreateOrder(r, q, body)
  /\ UNCHANGED <<config, api, forms, orderDataCall, ledger, dbFaulted, driver>>

\* POST /api/payment/manual arrives: the method check, orderData (where
\* amount.toString() throws on a missing amount), createOrder.
ManualPayment(r, body) ==
  /\ req[r].pc = "idle"
  /\ \A s \in Requests : s < r => req[s].pc # "idle"
  /\ LET q == [req[r] EXCEPT !.kind = "manual"] IN
     IF body.paymentMethod \notin {"cashapp", "crypto"}
     THEN /\ Respond(r, q, 400, FALSE, "Invalid payment method")
          /\ UNCHANGED <<store, emails>>
     ELSE IF body.amount.type = "undefined"
     THEN /\ Respond(r, q, 500, FALSE, "Failed to process payment")
          /\ UNCHANGED <<store, emails>>
     ELSE CreateOrder(r, q,
            [customerName  |-> body.customerName,
             customerEmail |-> body.customerEmail,
             amount        |-> NumberToString(body.amount.tenths),
             paymentMethod |-> IF body.paymentMethod = "cashapp"
                               THEN "Cash App" ELSE "Cryptocurrency",
             description   |-> body.description])
  /\ UNCHANGED <<config, api, forms, orderDataCall, ledger, dbFaulted, driver>>

\* resend.emails.send of the current step of sendOrderConfirmation answers a
\* POST /api/orders or POST /api/payment/manual request; a failure reaches
\* the route's catch.
ApiEmail(r, ok) ==
  /\ req[r].kind \in {"order", "manual"}
  /\ req[r].pc = "email"
  /\ LET q == req[r]
         order == CHOOSE o \in {orders[i] : i \in 1..Len(orders)} :
                    o.orderNumber = q.orderNumber
     IN  IF ok
         THEN /\ emails' = emails \cup
                             {[to |-> Recipient(q.emailStep, order.customerEmail),
                               step |-> q.emailStep,
                               orderNumber |-> q.orderNumber]}
              /\ IF q.emailStep < ConfirmationSends
                 THEN req' = [req EXCEPT ![r].emailStep = q.emailStep + 1]
                 ELSE IF q.kind = "order"
                 THEN Respond(r, q, 201, FALSE, NoValue)
                 ELSE Respond(r, q, 200, FALSE, NoValue)
         ELSE /\ IF q.kind = "order"
                 THEN Respond(r, [q EXCEPT !.emailFailed = TRUE], 400, FALSE,
                              "Invalid order data")
                 ELSE Respond(r, [q EXCEPT !.emailFailed = TRUE], 500, FALSE,
                              "Failed to process payment")
              /\ UNCHANGED emails
  /\ UNCHANGED <<config, api, forms, orderDataCall, ledger, store, dbFaulted, driver>>

\* Bodies of POST /api/custom-orders; insertCustomOrderSchema.parse accepts
\* or rejects them (schemaOk).
CustomOrderBodies ==
  {[customerName |-> "Grace", customerEmail |-> "grace@customer.example",
    category |-> "Wrap", description |-> "Livery", estimatedPrice |-> "120",
    paymentMethod |-> NoValue, imageUrls |-> NoValue]}

\* Bodies of POST /api/contact.
ContactBodies ==
  {[name |-> "Niklaus", email |-> "niklaus@customer.example",
    subject |-> "Shipping", message |-> "When?"]}

\* createCustomOrder: the record stored for a validated body; id stands for
\* the UUID, the position of the record in insertion order.
NewCustomOrder(insertCustomOrder, position) ==
  [id             |-> position,
   customerName   |-> insertCustomOrder.customerName,
   customerEmail  |-> insertCustomOrder.customerEmail,
   category       |-> insertCustomOrder.category,
   description    |-> insertCustomOrder.description,
   estimatedPrice |-> insertCustomOrder.estimatedPrice,
   paymentMethod  |-> insertCustomOrder.paymentMethod,
   imageUrls      |-> insertCustomOrder.imageUrls,
   status         |-> "pending"]

\* createContactSubmission.
NewContactSubmission(insertSubmission, position) ==
  [id      |-> position,
   name    |-> insertSubmission.name,
   email   |-> insertSubmission.email,
   subject |-> insertSubmission.subject,
   message |-> insertSubmission.message]

\* What a message of a notification is about: the custom order or contact
\* submission whose creation it follows.
FormReference(kind, position) == kind \o "-" \o ToString(position)

\* The to: of the sends of sendCustomOrderNotification, in order.
CustomOrderRecipient(step, customerEmail) ==
  IF step = 1 THEN "allouzimohammed53@gmail.com"
  ELSE IF step = 2 THEN "custom@driftv8.xyz"
  ELSE customerEmail

\* The to: of the sends of sendContactNotification, in order.
ContactRecipient(step, email) ==
  IF step = 1 THEN "contact@driftv8.xyz" ELSE email

\* POST /api/custom-orders arrives: validation, createCustomOrder, then
\* sendCustomOrderNotification up to its first resend.emails.send.
PostCustomOrder(r, body, schemaOk) ==
  /\ req[r].pc = "idle"
  /\ \A s \in Requests : s < r => req[s].pc # "idle"
  /\ LET q == [req[r] EXCEPT !.kind = "customOrder"] IN
     IF ~schemaOk
     THEN /\ Respond(r, q, 400, FALSE, "Invalid custom order data")
          /\ UNCHANGED customOrders
     ELSE /\ customOrders' =
               Append(customOrders,
                      NewCustomOrder(body, Len(customOrders) + 1))
          /\ req' = [req EXCEPT ![r] =
                       [q EXCEPT !.pc = "email",
                                 !.record = Len(customOrders) + 1,
                                 !.emailStep = 1]]
  /\ UNCHANGED <<config, api, ledger, store, emails, dbFaulted, driver,
                 contactSubmissions, orderDataCall>>

\* POST /api/contact arrives: validation, createContactSubmission, then
\* sendContactNotification up to its first resend.emails.send.
PostContact(r, body, schemaOk) ==
  /\ req[r].pc = "idle"
  /\ \A s \in Requests : s < r => req[s].pc # "idle"
  /\ LET q == [req[r] EXCEPT !.kind = "contact"] IN
     IF ~schemaOk
     THEN /\ Respond(r, q, 400, FALSE, "Invalid contact data")
          /\ UNCHANGED contactSubmissions
     ELSE /\ contactSubmissions' =
               Append(contactSubmissions,
                      NewContactSubmission(body, Len(contactSubmissions) + 1))
          /\ req' = [req EXCEPT ![r] =
                       [q EXCEPT !.pc = "email",
                                 !.record = Len(contactSubmissions) + 1,
                                 !.emailStep = 1]]
  /\ UNCHANGED <<config, api, ledger, store, emails, dbFaulted, driver,
                 customOrders, orderDataCall>>

\* resend.emails.send of the current step of sendCustomOrderNotification or
\* sendContactNotification answers; after the last send the route answers
\* 201, and a failure reaches the route's catch.
FormEmail(r, ok) ==
  /\ req[r].kind \in {"customOrder", "contact"}
  /\ req[r].pc = "email"
  /\ LET q == req[r]
         to == IF q.kind = "customOrder"
               THEN CustomOrderRecipient(q.emailStep,
                                         customOrders[q.record].customerEmail)
               ELSE ContactRecipient(q.emailStep,
                                     contactSubmissions[q.record].email)
         sends == IF q.kind = "customOrder"
                  THEN CustomOrderSends ELSE ContactSends
     IN  IF ok
         THEN /\ emails' = emails \cup
                             {[to |-> to, step |-> q.emailStep,
                               orderNumber |-> FormReference(q.kind, q.record)]}
              /\ IF q.emailStep < sends
                 THEN req' = [req EXCEPT ![r].emailStep = q.emailStep + 1]
                 ELSE Respond(r, q, 201, FALSE, NoValue)
         ELSE /\ IF q.kind = "customOrder"
                 THEN Respond(r, [q EXCEPT !.emailFailed = TRUE], 400, FALSE,
                              "Invalid custom order data")
                 ELSE Respond(r, [q EXCEPT !.emailFailed = TRUE], 400, FALSE,
                              "Invalid contact data")
              /\ UNCHANGED emails
  /\ UNCHANGED <<config, api, forms, orderDataCall, ledger, store, dbFaulted, driver>>

\* Values of the rating field of a PATCH /api/orders/:id/rating body.
RatingInputs ==
  {JsonNumber(0), JsonNumber(10), JsonNumber(25), JsonNumber(50),
   JsonNumber(60), JsonString}

\* typeof rating !== "number" || rating < 1 || rating > 5
InvalidRating(rating) ==
  rating.type # "number" \/ rating.tenths < 10 \/ rating.tenths > 50

\* Mutant of UpdateOrderRating: the rating is written to every order.
UpdateOrderRating_AllOrders(id, rating) ==
  [i \in 1..Len(orders) |->
     [orders[i] EXCEPT !.rating = NumberToString(rating.tenths)]]

\* MemStorage.updateOrderRating on an order that exists.
UpdateOrderRating(id, rating) ==
  [orders EXCEPT ![id].rating = NumberToString(rating.tenths)]

\* PATCH /api/orders/:id/rating.  An order's id is its position.
PatchOrderRating(id, rating) ==
  /\ LET route == "PATCH /api/orders/:id/rating" IN
     IF InvalidRating(rating)
     THEN /\ Answer(route, id, rating, 400, {}, id \in 1..Len(orders))
          /\ UNCHANGED orders
     ELSE IF id \notin 1..Len(orders)
     THEN /\ Answer(route, id, rating, 404, {}, FALSE)
          /\ UNCHANGED orders
     ELSE /\ orders' = UpdateOrderRating(id, rating)
          /\ Answer(route, id, rating, 200, {orders'[id]}, TRUE)
  /\ UNCHANGED <<config, ledger, orderCounter, donations, emails, req,
                 dbFaulted, driver, forms,
                 orderDataCall, cartItems, cartIds,
                 checkoutCall>>

\* Bodies of POST /api/cart, without and with a quantity field;
\* insertCartItemSchema.parse accepts or rejects them (schemaOk).
CartBodies ==
  {[productId |-> "p1", imageUrls |-> NoValue, quantity |-> NoValue],
   [productId |-> "p2", imageUrls |-> "p2.png", quantity |-> "7"]}

\* MemStorage.addCartItem: the record stored for insertItem.  randomUUID is
\* modelled by the number of ids given out; createdAt is not modelled.
NewCartItem(insertItem, id) ==
  [id |-> id, productId |-> insertItem.productId,
   imageUrls |-> insertItem.imageUrls, quantity |-> "1"]

CartItemIds == {item.id : item \in cartItems}

\* MemStorage.getCartItem
GetCartItem(id) == CHOOSE item \in cartItems : item.id = id

\* POST /api/cart
PostCart(body, schemaOk) ==
  /\ LET route == "POST /api/cart" IN
     IF ~schemaOk
     THEN /\ Answer(route, 0, JsonUndefined, 400, {}, FALSE)
          /\ UNCHANGED <<cartItems, cartIds>>
     ELSE LET item == NewCartItem(body, cartIds + 1) IN
          /\ cartIds < MaxCartItems
          /\ cartIds' = cartIds + 1
          /\ cartItems' = cartItems \cup {item}
          /\ Answer(route, item.id, JsonUndefined, 201, {item}, FALSE)
  /\ UNCHANGED <<config, ledger, store, emails, req, dbFaulted, driver, forms,
                 orderDataCall,
                 checkoutCall>>

\* Values of the quantity field of a PATCH /api/cart/:id body.
QuantityInputs ==
  {JsonNumber(0 - 10), JsonNumber(0), JsonNumber(10), JsonNumber(15),
   JsonNumber(30), JsonString}

\* typeof quantity !== "number" || quantity < 1
InvalidQuantity(quantity) == quantity.type # "number" \/ quantity.tenths < 10

\* MemStorage.updateCartItemQuantity on an item that exists.
UpdateCartItemQuantity(id, quantity) ==
  LET item == GetCartItem(id)
      updatedItem == [item EXCEPT !.quantity = NumberToString(quantity.tenths)]
  IN  (cartItems \ {item}) \cup {updatedItem}

\* PATCH /api/cart/:id
PatchCart(id, quantity) ==
  /\ LET route == "PATCH /api/cart/:id"
         found == id \in CartItemIds
     IN
     IF InvalidQuantity(quantity)
     THEN /\ Answer(route, id, quantity, 400, {}, found)
          /\ UNCHANGED cartItems
     ELSE IF ~found
     THEN /\ Answer(route, id, quantity, 404, {}, found)
          /\ UNCHANGED cartItems
     ELSE /\ cartItems' = UpdateCartItemQuantity(id, quantity)
          /\ Answer(route, id, quantity, 200,
                    {item \in cartItems' : item.id = id}, found)
  /\ UNCHANGED <<config, ledger, store, emails, req, dbFaulted, driver, forms,
                 orderDataCall,
                 cartIds, checkoutCall>>

\* Mutant of RemoveCartItem: the whole cart goes.
RemoveCartItem_All(id) == {}

\* MemStorage.removeCartItem: what Map.delete leaves.
RemoveCartItem(id) == {item \in cartItems : item.id # id}

\* DELETE /api/cart/:id; deleted is the answer of removeCartItem.
DeleteCartItem(id) ==
  /\ LET deleted == id \in CartItemIds IN
     /\ cartItems' = RemoveCartItem(id)
     /\ Answer("DELETE /api/cart/:id", id, JsonUndefined,
               IF deleted THEN 204 ELSE 404, {}, deleted)
  /\ UNCHANGED <<config, ledger, store, emails, req, dbFaulted, driver, forms,
                 orderDataCall,
                 cartIds, checkoutCall>>

\* DELETE /api/cart
DeleteCart ==
  /\ cartItems' = {}
  /\ Answer("DELETE /api/cart", 0, JsonUndefined, 204, {}, FALSE)
  /\ UNCHANGED <<config, ledger, store, emails, req, dbFaulted, driver, forms,
                 orderDataCall,
                 cartIds, checkoutCall>>

\* GET /api/cart: the listing (its order is not modelled).
GetCart ==
  /\ Answer("GET /api/cart", 0, JsonUndefined, 200, cartItems, FALSE)
  /\ UNCHANGED <<config, ledger, store, emails, req, dbFaulted, driver, forms,
                 orderDataCall,
                 cartItems, cartIds, checkoutCall>>

---------------------------------------------------------------------------
(* createStripeCheckoutSession (POST /api/stripe/create-checkout-session). *)
(* The amount of the body is absent, a string or a number; a string is a   *)
(* sequence of characters and a number is given by the characters of its   *)
(* decimal form, which is what parseFloat converts it to before parsing.   *)

AmountAlphabet == {"-", "0", "5", ".", "a"}

AmountStrings == UNION {[1..n -> AmountAlphabet] : n \in 0..MaxAmountLength}

AmountInputs ==
  {[type |-> "undefined", chars |-> <<>>]}
    \cup {[type |-> "string", chars |-> cs] : cs \in AmountStrings}
    \cup {[type |-> "number", chars |-> cs] :
            cs \in {<<"0">>, <<"5">>, <<"-", "5">>, <<"0", ".", "5">>}}

DecimalDigits == {"0", "1", "2", "3", "4", "5", "6", "7", "8", "9"}

RECURSIVE TrimStart(_)
\* The string without its leading white space.
TrimStart(cs) ==
  IF cs # <<>> /\ Head(cs) = " " THEN TrimStart(Tail(cs)) ELSE cs

RECURSIVE LeadingDigits(_)
\* The longest prefix made of decimal digits.
LeadingDigits(cs) ==
  IF cs # <<>> /\ Head(cs) \in DecimalDigits
  THEN <<Head(cs)>> \o LeadingDigits(Tail(cs))
  ELSE <<>>

\* parseFloat: white space, an optional sign, then the longest prefix that
\* is a decimal literal (digits, a point, digits); NaN when that prefix has
\* no digit.  Of the value, its sign and whether it is zero are kept.
\* Exponents and "Infinity" are outside the alphabet of the inputs.
ParseFloat(cs) ==
  LET trimmed  == TrimStart(cs)
      signed   == trimmed # <<>> /\ Head(trimmed) \in {"+", "-"}
      unsigned == IF signed THEN Tail(trimmed) ELSE trimmed
      whole    == LeadingDigits(unsigned)
      rest     == SubSeq(unsigned, Len(whole) + 1, Len(unsigned))
      fraction == IF rest # <<>> /\ Head(rest) = "."
                  THEN LeadingDigits(Tail(rest)) ELSE <<>>
      digits   == whole \o fraction
  IN  [nan      |-> digits = <<>>,
       negative |-> signed /\ Head(trimmed) = "-",
       zero     |-> \A i \in 1..Len(digits) : digits[i] = "0"]

\* !amount
Falsy(amount) ==
  \/ amount.type = "undefined"
  \/ amount.type = "string" /\ amount.chars = <<>>
  \/ amount.type = "number" /\ ParseFloat(amount.chars).zero

\* parseFloat(amount) <= 0, for a value that is not NaN
NotPositive(value) == value.negative \/ value.zero

\* Mutant of InvalidAmount: the sign of the amount is not looked at.
InvalidAmount_AnyNumber(amount) ==
  Falsy(amount) \/ ParseFloat(amount.chars).nan

\* !amount || isNaN(parseFloat(amount)) || parseFloat(amount) <= 0
InvalidAmount(amount) ==
  \/ Falsy(amount)
  \/ ParseFloat(amount.chars).nan
  \/ NotPositive(ParseFloat(amount.chars))

NoCheckoutCall ==
  [amount |-> [type |-> "undefined", chars |-> <<>>], status |-> 0,
   created |-> FALSE]

\* The whole handler; ok is whether stripe.checkout.sessions.create
\* answers or throws.  created records that the provider was called.
CreateStripeCheckoutSession(amount, ok) ==
  /\ IF ~stripeConfigured
     THEN checkoutCall' = [amount |-> amount, status |-> 503,
                           created |-> FALSE]
     ELSE IF InvalidAmount(amount)
     THEN checkoutCall' = [amount |-> amount, status |-> 400,
                           created |-> FALSE]
     ELSE checkoutCall' = [amount |-> amount,
                           status |-> IF ok THEN 200 ELSE 500,
                           created |-> TRUE]
  /\ UNCHANGED <<config, ledger, store, emails, req, dbFaulted, driver, forms,
                 orderDataCall,
                 cartItems, cartIds, apiCall>>

---------------------------------------------------------------------------
Init ==
  /\ stripeConfigured \in BOOLEAN
  /\ webhookSecret \in BOOLEAN
  /\ dbConfigured \in BOOLEAN
  /\ webhookEvents = {}
  /\ processedEvents = {}
  /\ orders = <<>>
  /\ orderCounter = InitialOrderCounter
  /\ donations = <<>>
  /\ emails = {}
  /\ req = [r \in Requests |-> IdleRequest]
  /\ dbFaulted = FALSE
  /\ ledgerCall = NoCall
  /\ memoryOnly = {}
  /\ markReturned = {}
  /\ cartItems = {}
  /\ cartIds = 0
  /\ apiCall = NoApiCall
  /\ checkoutCall = NoCheckoutCall
  /\ customOrders = <<>>
  /\ contactSubmissions = <<>>
  /\ orderDataCall = NoOrderDataCall

Next ==
  \/ \E r \in Requests, sig \in Signatures, e \in EventIds : WhReceive(r, sig, e)
  \/ \E r \in Requests, readOk \in BOOLEAN : WhSelect(r, readOk)
  \/ \E r \in Requests, outcome \in {"ok", "duplicate", "error"} : WhInsert(r, outcome)
  \/ \E r \in Requests, ok \in BOOLEAN : WhRetrieve(r, ok)
  \/ \E r \in Requests, ok \in BOOLEAN : WhEmail(r, ok)
  \/ \E r \in Requests, sessionId \in DonationSessionIds \cup {NoValue} :
       DnReceive(r, sessionId)
  \/ \E r \in Requests, readOk \in BOOLEAN : DnSelect(r, readOk)
  \/ \E r \in Requests, ok \in BOOLEAN, schemaOk \in BOOLEAN :
       DnRetrieve(r, ok, schemaOk)
  \/ \E r \in Requests, outcome \in {"ok", "duplicate", "error"} :
       DnInsert(r, outcome)

Spec == Init /\ [][Next]_vars

\* The ledger called directly: a sequence of isEventProcessed and
\* markEventProcessed calls on one store.
LedgerInit ==
  /\ Init
  /\ stripeConfigured
  /\ webhookSecret

LedgerNext ==
  \/ \E e \in LedgerIds, readOk \in BOOLEAN : CallIsEventProcessed(e, readOk)
  \/ \E e \in LedgerIds, outcome \in {"ok", "duplicate", "error"} :
       CallMarkEventProcessed(e, outcome)

LedgerSpec == LedgerInit /\ [][LedgerNext]_vars

\* The routes that create and rate orders, next to the webhook, on a store
\* without database.
OrderInit ==
  /\ Init
  /\ stripeConfigured
  /\ webhookSecret
  /\ ~dbConfigured

OrderNext ==
  \/ \E r \in Requests, body \in OrderBodies, schemaOk \in BOOLEAN :
       PostOrder(r, body, schemaOk)
  \/ \E r \in Requests, body \in ManualBodies : ManualPayment(r, body)
  \/ \E r \in Requests, ok \in BOOLEAN : ApiEmail(r, ok)
  \/ \E r \in Requests, e \in {"evt_1", "evt_2"} : WhReceive(r, "valid", e)
  \/ \E r \in Requests, ok \in BOOLEAN : WhRetrieve(r, ok)
  \/ \E r \in Requests, ok \in BOOLEAN : WhEmail(r, ok)

OrderSpec == OrderInit /\ [][OrderNext]_vars

\* Orders created by POST /api/orders and rated by PATCH
\* /api/orders/:id/rating.
RatingNext ==
  \/ \E r \in Requests, schemaOk \in BOOLEAN :
       PostOrder(r, CHOOSE body \in OrderBodies : body.orderNumber = NoValue,
                 schemaOk)
  \/ \E r \in Requests, ok \in BOOLEAN : ApiEmail(r, ok)
  \/ \E id \in 1..(Len(orders) + 1), rating \in RatingInputs :
       PatchOrderRating(id, rating)

RatingSpec == OrderInit /\ [][RatingNext]_vars

\* The routes that create a record: orders, manual payments, custom orders,
\* contact submissions and cart items.
CreateNext ==
  \/ \E r \in Requests, schemaOk \in BOOLEAN :
       PostOrder(r, CHOOSE body \in OrderBodies : body.orderNumber = NoValue,
                 schemaOk)
  \/ \E r \in Requests, body \in ManualBodies : ManualPayment(r, body)
  \/ \E r \in Requests, ok \in BOOLEAN : ApiEmail(r, ok)
  \/ \E r \in Requests, body \in CustomOrderBodies, schemaOk \in BOOLEAN :
       PostCustomOrder(r, body, schemaOk)
  \/ \E r \in Requests, body \in ContactBodies, schemaOk \in BOOLEAN :
       PostContact(r, body, schemaOk)
  \/ \E r \in Requests, ok \in BOOLEAN : FormEmail(r, ok)
  \/ \E body \in CartBodies, schemaOk \in BOOLEAN : PostCart(body, schemaOk)

CreateSpec == OrderInit /\ [][CreateNext]_vars

\* The webhook handler alone, for deliveries of a payment-completed event
\* with a payment intent and of an event of another kind.
WebhookNext ==
  \/ \E r \in Requests, sig \in Signatures, e \in {"evt_1", "evt_3"} :
       WhReceive(r, sig, e)
  \/ \E r \in Requests, readOk \in BOOLEAN : WhSelect(r, readOk)
  \/ \E r \in Requests, outcome \in {"ok", "duplicate", "error"} :
       WhInsert(r, outcome)
  \/ \E r \in Requests, ok \in BOOLEAN : WhRetrieve(r, ok)
  \/ \E r \in Requests, ok \in BOOLEAN : WhEmail(r, ok)

WebhookSpec == Init /\ [][WebhookNext]_vars

\* The same, where the database, the provider and the mail service answer
\* every call made to them (with a result or an error).
WebhookFairSpec ==
  /\ WebhookSpec
  /\ \A r \in Requests :
       /\ WF_vars(\E readOk \in BOOLEAN : WhSelect(r, readOk))
       /\ WF_vars(\E outcome \in {"ok", "duplicate", "error"} :
                    WhInsert(r, outcome))
       /\ WF_vars(\E ok \in BOOLEAN : WhRetrieve(r, ok))
       /\ WF_vars(\E ok \in BOOLEAN : WhEmail(r, ok))

\* The process ends and a new one starts: the MemStorage constructor runs
\* again, requests in flight are gone, the durable table is what it was.
Restart ==
  /\ processedEvents' = {}
  /\ orders' = <<>>
  /\ orderCounter' = InitialOrderCounter
  /\ donations' = <<>>
  /\ cartItems' = {}
  /\ customOrders' = <<>>
  /\ contactSubmissions' = <<>>
  /\ req' = [r \in Requests |-> IdleRequest]
  /\ ledgerCall' = NoCall
  /\ memoryOnly' = {}
  /\ UNCHANGED <<config, webhookEvents, emails, dbFaulted, markReturned,
                 cartIds, apiCall, checkoutCall, orderDataCall>>

\* The ledger called directly by a process that can be restarted.
DurableLedgerNext ==
  \/ LedgerNext
  \/ Restart

DurableLedgerSpec == LedgerInit /\ [][DurableLedgerNext]_vars

\* Every operation that writes the order store: the three creators and the
\* rating update, for ratings the route accepts and ids it does not find.
OrderStoreNext ==
  \/ \E r \in Requests, body \in OrderBodies : PostOrder(r, body, TRUE)
  \/ \E r \in Requests :
       ManualPayment(r, CHOOSE body \in ManualBodies :
                          body.paymentMethod = "cashapp")
  \/ \E r \in Requests : ApiEmail(r, TRUE)
  \/ \E r \in Requests : WhReceive(r, "valid", "evt_2")
  \/ \E id \in 1..(Len(orders) + 1),
        rating \in {JsonNumber(10), JsonNumber(50)} :
       PatchOrderRating(id, rating)

OrderStoreSpec == OrderInit /\ [][OrderStoreNext]_vars

\* The derivation of an order from a session: every detail on one session,
\* and every session with the details of a wallet payment.
OrderDataNext ==
  \/ \E pmDetails \in DetailInputs : DeriveOrderData(LabelSession, pmDetails)
  \/ \E session \in SessionInputs : DeriveOrderData(session, WalletDetails)

OrderDataSpec == OrderInit /\ [][OrderDataNext]_vars

\* The donation-success route alone, for sessions that pass and sessions
\* that fail the payment checks.
DonationNext ==
  \/ \E r \in Requests,
        sessionId \in {"cs_d1"} \cup RefusedSessionIds \cup {NoValue} :
       DnReceive(r, sessionId)
  \/ \E r \in Requests, readOk \in BOOLEAN : DnSelect(r, readOk)
  \/ \E r \in Requests, ok \in BOOLEAN, schemaOk \in BOOLEAN :
       DnRetrieve(r, ok, schemaOk)
  \/ \E r \in Requests, outcome \in {"ok", "duplicate", "error"} :
       DnInsert(r, outcome)

DonationSpec == Init /\ [][DonationNext]_vars

\* The same, where the database and the provider answer every call made to
\* them (with a result or an error).
DonationFairSpec ==
  /\ DonationSpec
  /\ \A r \in Requests :
       /\ WF_vars(\E readOk \in BOOLEAN : DnSelect(r, readOk))
       /\ WF_vars(\E ok \in BOOLEAN, schemaOk \in BOOLEAN :
                    DnRetrieve(r, ok, schemaOk))
       /\ WF_vars(\E outcome \in {"ok", "duplicate", "error"} :
                    DnInsert(r, outcome))

\* The cart routes.
CartNext ==
  \/ \E body \in CartBodies, schemaOk \in BOOLEAN : PostCart(body, schemaOk)
  \/ \E id \in 1..(cartIds + 1), quantity \in QuantityInputs :
       PatchCart(id, quantity)
  \/ \E id \in 1..(cartIds + 1) : DeleteCartItem(id)
  \/ DeleteCart
  \/ GetCart

CartSpec == OrderInit /\ [][CartNext]_vars

\* The checkout route, with and without a Stripe client.
CheckoutNext ==
  \E amount \in AmountInputs, ok \in BOOLEAN :
    CreateStripeCheckoutSession(amount, ok)

CheckoutSpec == Init /\ [][CheckoutNext]_vars

---------------------------------------------------------------------------
(* Properties.                                                             *)

Done(r) == req[r].pc = "done"

Verified(r) == req[r].event # NoValue

Acknowledged(r) == req[r].response.status = 200 /\ req[r].response.received

DeliveriesOf(e) == {r \in Deliveries : req[r].event = e}

OrdersOf(e) ==
  {req[r].orderNumber : r \in {d \in DeliveriesOf(e) : req[d].orderNumber # NoValue}}

OrderNumbers == {orders[i].orderNumber : i \in 1..Len(orders)}

\* C1: with the durable ledger available, of the deliveries of one
\* payment-completed event at most one gets past the duplicate check, and
\* once all of them have been answered without a failure there is exactly
\* one order for the event and one ledger record.
C1_OneOrderPerEvent ==
  \A e \in EventIds :
    (dbConfigured /\ ~dbFaulted /\ EventOf(e).type = CheckoutCompleted) =>
      /\ Cardinality({r \in DeliveriesOf(e) : req[r].passed}) <= 1
      /\ (/\ DeliveriesOf(e) # {}
          /\ \A r \in Requests : req[r].pc \in {"idle", "done"}
          /\ \A r \in DeliveriesOf(e) : Acknowledged(r))
         => /\ Cardinality(OrdersOf(e)) = 1
            /\ e \in webhookEvents

\* C2: once markEventProcessed(e) has returned, isEventProcessed(e) answers
\* true, whatever the database does.
C2_MarkedIsProcessed ==
  (ledgerCall.op = "isEventProcessed" /\ ledgerCall.id \in markReturned)
    => ledgerCall.answer

\* C3: markEventProcessed returns normally in every case: without database,
\* on a successful insert, on a duplicate-key conflict and on any other
\* database error; and the id is then recorded in the table or in the set.
C3_MarkNeverRaises ==
  ledgerCall.op = "markEventProcessed" =>
    /\ ~ledgerCall.raised
    /\ ledgerCall.id \in markReturned
    /\ Recorded(ledgerCall.id)

\* C3 witness: a second markEventProcessed of an id met the duplicate-key
\* conflict and returned.
C3_Witness ==
  /\ ledgerCall.op = "markEventProcessed"
  /\ ledgerCall.db = "duplicate"
  /\ ~ledgerCall.raised

\* C4: every isEventProcessed call answers what a store without database
\* answers after the same calls.
C4_PathsAgree ==
  ledgerCall.op = "isEventProcessed" => ledgerCall.answer = ledgerCall.reference

\* C5: a delivery asks the provider for the payment intent, creates its order
\* and sends mail only after its markEventProcessed has returned, so the
\* event id of every order is recorded in the ledger.
C5_LedgerBeforeWork ==
  /\ \A r \in Deliveries :
       (req[r].retrieved \/ req[r].orderNumber # NoValue
          \/ req[r].pc \in {"retrieve", "email"})
         => (req[r].marked /\ Recorded(req[r].event))
  /\ \A m \in emails :
       \E r \in Deliveries :
         /\ req[r].orderNumber = m.orderNumber
         /\ req[r].marked
  /\ \A n \in OrderNumbers :
       \E r \in Deliveries : req[r].orderNumber = n /\ req[r].marked

\* C5 witness: a delivery has asked the provider, created its order and sent
\* the customer's confirmation.
C5_Witness ==
  \E r \in Deliveries :
    /\ req[r].retrieved
    /\ req[r].orderNumber \in OrderNumbers
    /\ \E m \in emails : m.orderNumber = req[r].orderNumber /\ m.step = 1

\* The requests that are donation-success redirects for a session.
DonationRequestsOf(sessionId) ==
  {r \in Requests : req[r].kind = "donation" /\ req[r].session = sessionId}

\* An order for the event has been created, or a delivery that has written
\* the marker is on its way to creating it.
OrderCreatedOrInProgress(e) ==
  \E r \in DeliveriesOf(e) :
    req[r].orderNumber # NoValue \/ (req[r].marked /\ req[r].pc = "retrieve")

\* A donation for the session has been created.
DonationCreated(sessionId) ==
  \E r \in DonationRequestsOf(sessionId) : req[r].donation # 0

\* C6 as stated: for every payment-completed event id and every donation
\* marker, the ledger holds a record exactly when the order or donation has
\* been created or is being created.
C6_RecordIffCreated ==
  /\ \A e \in EventIds :
       EventOf(e).type = CheckoutCompleted =>
         (Recorded(e) <=> OrderCreatedOrInProgress(e))
  /\ \A sessionId \in DonationSessionIds :
       Recorded(DonationMarker(sessionId)) <=> DonationCreated(sessionId)

\* C6 amended: an order exists or is being created for a webhook event only
\* if the ledger holds the event id, and the ledger holds a donation marker
\* only if the donation of that session has been created.
C6_OneDirectionPerPath ==
  /\ \A e \in EventIds : OrderCreatedOrInProgress(e) => Recorded(e)
  /\ \A sessionId \in DonationSessionIds :
       Recorded(DonationMarker(sessionId)) => DonationCreated(sessionId)

\* C6 witness: the ledger holds the id of an event whose order exists and
\* the marker of a session whose donation exists.
C6_Witness ==
  /\ \E e \in EventIds :
       /\ Recorded(e)
       /\ \E r \in DeliveriesOf(e) : req[r].orderNumber \in OrderNumbers
  /\ \E sessionId \in DonationSessionIds :
       /\ Recorded(DonationMarker(sessionId))
       /\ DonationCreated(sessionId)
       /\ donations # <<>>

\* C7: a verified delivery whose event id the ledger already held when it
\* arrived is acknowledged and does nothing else: it does not get past the
\* duplicate check, marks nothing, asks the provider nothing, creates no
\* order.
C7_DuplicateIsNoOp ==
  \A r \in Deliveries :
    (Verified(r) /\ req[r].known) =>
      /\ ~req[r].passed
      /\ ~req[r].marked
      /\ ~req[r].retrieved
      /\ req[r].orderNumber = NoValue
      /\ Done(r) => Acknowledged(r)

\* C8 as stated: an unverifiable request is answered 400, without the ledger
\* being read or written, an order created or a mail sent.
C8_UnverifiableIs400 ==
  \A r \in Deliveries :
    (req[r].sig \in {"missing", "bad"} \/ (req[r].sig # NoValue /\ ~webhookSecret))
      => /\ Done(r)
         /\ req[r].response.status = 400
         /\ ~req[r].response.received
         /\ ~req[r].checked /\ ~req[r].marked /\ ~req[r].retrieved
         /\ req[r].orderNumber = NoValue

\* C8 amended: the same, with 400 when the Stripe client is configured and
\* 503 when it is not.
C8_UnverifiableRejected ==
  \A r \in Deliveries :
    (req[r].sig \in {"missing", "bad"} \/ (req[r].sig # NoValue /\ ~webhookSecret))
      => /\ Done(r)
         /\ req[r].response.status = (IF stripeConfigured THEN 400 ELSE 503)
         /\ ~req[r].response.received
         /\ ~req[r].checked /\ ~req[r].marked /\ ~req[r].retrieved
         /\ req[r].orderNumber = NoValue

\* C8 witness: with the client and the secret configured, a delivery whose
\* signature fails verification has been answered 400, while the store holds
\* the order of another delivery.
C8_Witness ==
  /\ stripeConfigured /\ webhookSecret
  /\ \E r \in Deliveries :
       req[r].sig = "bad" /\ Done(r) /\ req[r].response.status = 400
  /\ orders # <<>>

\* C9: a verified delivery of an event of another kind than
\* checkout.session.completed never asks the provider, creates no order,
\* sends no mail, and is answered 200 {received: true}.
C9_OtherKindsAcknowledged ==
  \A r \in Deliveries :
    (Verified(r) /\ EventOf(req[r].event).type # CheckoutCompleted) =>
      /\ req[r].pc \notin {"retrieve", "email"}
      /\ ~req[r].retrieved
      /\ req[r].orderNumber = NoValue
      /\ Done(r) => Acknowledged(r)
      /\ (Done(r) /\ req[r].passed) => req[r].response.message = NoValue

\* C9 witness: a new event of another kind was marked and acknowledged.
C9_Witness ==
  \E r \in Deliveries :
    /\ Verified(r) /\ EventOf(req[r].event).type # CheckoutCompleted
    /\ ~req[r].known /\ req[r].passed /\ req[r].marked
    /\ Done(r) /\ Acknowledged(r)

\* C10: when a send of the confirmation fails after createOrder, the order
\* stays in the store and the delivery is still answered 200 {received: true}.
C10_EmailFailureAcknowledged ==
  \A r \in Deliveries :
    req[r].emailFailed =>
      /\ req[r].orderNumber \in OrderNumbers
      /\ Acknowledged(r)

\* The provider's answer to paymentIntents.retrieve was an exception.
RetrievalFailed(r) ==
  Done(r) /\ req[r].retrieved /\ req[r].orderNumber = NoValue

\* C11 as stated: every answered webhook request got 400 (and was
\* unverifiable), 503 (and no payment processor was configured) or 200 with
\* received: true (and was verified with a processor configured).
C11_ThreeAnswers ==
  \A r \in Deliveries :
    Done(r) =>
      \/ /\ req[r].response.status = 400
         /\ Unverifiable(req[r].sig, webhookSecret)
      \/ /\ req[r].response.status = 503
         /\ ~stripeConfigured
      \/ /\ Acknowledged(r)
         /\ stripeConfigured
         /\ ~Unverifiable(req[r].sig, webhookSecret)

\* C11 amended: every answered webhook request got exactly one of 503 (no
\* payment processor configured), 400 (processor configured, request
\* unverifiable), 500 (verified, and the provider's retrieval or a send of
\* the confirmation threw) or 200 with received: true (all other cases).
C11_FourAnswers ==
  \A r \in Deliveries :
    Done(r) =>
      LET failed == RetrievalFailed(r) \/ req[r].emailFailed IN
      /\ req[r].response.status =
           (IF ~stripeConfigured THEN 503
            ELSE IF Unverifiable(req[r].sig, webhookSecret) THEN 400
            ELSE IF failed THEN 500
            ELSE 200)
      /\ req[r].response.received = (req[r].response.status = 200)
      /\ failed => Verified(r)

\* C11 witness: among the answered deliveries there are one answered 500
\* after the provider's retrieval threw and one answered 200.
C11_Witness ==
  /\ \E r \in Deliveries : RetrievalFailed(r) /\ req[r].response.status = 500
  /\ \E r \in Deliveries : Done(r) /\ Acknowledged(r)

\* The deliveries of its event that had failed, when r arrived, after
\* writing the marker and before creating the order.
FailedBeforeOrder(r) ==
  {s \in req[r].priorFailures : req[s].marked /\ req[s].orderNumber = NoValue}

\* C12: once a delivery of a payment-completed event has failed after the
\* marker was written and before createOrder, every later delivery of the
\* event is treated as a duplicate and the event never gets an order; and
\* no event ever has more than one order.
C12_FailedEventSkipped ==
  \A e \in EventIds :
    EventOf(e).type = CheckoutCompleted =>
      /\ \A r \in DeliveriesOf(e) :
           FailedBeforeOrder(r) # {} =>
             /\ ~req[r].passed
             /\ req[r].orderNumber = NoValue
             /\ Done(r) => Acknowledged(r)
      /\ (\E r \in DeliveriesOf(e) :
            Done(r) /\ req[r].response.status = 500 /\ req[r].marked
              /\ req[r].orderNumber = NoValue)
           => OrdersOf(e) = {}
      /\ Cardinality(OrdersOf(e)) <= 1

CustomerConfirmations(e) ==
  {m \in emails : m.step = 1 /\ m.orderNumber \in OrdersOf(e)}

\* C14: for every event id at most one customer confirmation is sent, and
\* every confirmation is for an order that is in the store.
C14_OneConfirmationPerEvent ==
  /\ \A e \in EventIds : Cardinality(CustomerConfirmations(e)) <= 1
  /\ \A m \in emails : m.orderNumber \in OrderNumbers

\* C20: a donation-success request whose session's marker the ledger held
\* when it arrived redirects to the success page without retrieving the
\* session, creating a donation or writing to the ledger.
C20_ProcessedSessionIsNoOp ==
  \A r \in Requests :
    (req[r].kind = "donation" /\ req[r].known) =>
      /\ ~req[r].passed
      /\ ~req[r].retrieved
      /\ req[r].donation = 0
      /\ ~req[r].marked
      /\ Done(r) => req[r].response.location = "/?donation_success=true"

\* The requests that have created an order.
OrderCreators == {r \in Requests : req[r].orderNumber # NoValue}

\* C15: whatever route calls createOrder (webhook, POST /api/orders, POST
\* /api/payment/manual) and whatever the caller sent, the i-th order created
\* gets the number of the store's counter, ORD-(1000 + i): no two orders and
\* no two requests share a number, and the number of an order created never
\* changes or goes away.
C15_StoreAssignsOrderNumbers ==
  /\ [](/\ \A i \in 1..Len(orders) :
            orders[i].orderNumber = OrderNumber(InitialOrderCounter + i)
        /\ \A i, j \in 1..Len(orders) :
            i # j => orders[i].orderNumber # orders[j].orderNumber
        /\ orderCounter = InitialOrderCounter + Len(orders)
        /\ \A r \in OrderCreators : req[r].orderNumber \in OrderNumbers
        /\ \A r, s \in OrderCreators :
            r # s => req[r].orderNumber # req[s].orderNumber)
  /\ [][/\ Len(orders') >= Len(orders)
        /\ \A i \in 1..Len(orders) :
             orders'[i].orderNumber = orders[i].orderNumber
        /\ orderCounter' >= orderCounter]_vars

\* C15 witness: the store holds an order created by the webhook and an order
\* created by POST /api/orders from a body that carried a number of the
\* caller's.
C15_Witness ==
  /\ \E r \in OrderCreators : req[r].kind = "webhook"
  /\ \E r \in OrderCreators : req[r].kind = "order"
  /\ \E i \in 1..Len(orders) : orders[i].customerName = "Barbara"
  /\ Len(orders) = 2

\* C16: PATCH /api/orders/:id/rating answers 400 and leaves the store alone
\* when the rating is outside 1..5, answers 404 and leaves the store alone
\* when the id is unknown, and otherwise answers the order with the
\* rating's string form; every stored rating is empty or one of "1".."5".
C16_RatingInRange ==
  /\ LET route == "PATCH /api/orders/:id/rating"
         inRange == /\ apiCall.input.type = "number"
                    /\ apiCall.input.tenths >= 10
                    /\ apiCall.input.tenths <= 50
     IN  apiCall.route = route =>
           /\ ~inRange => (apiCall.status = 400 /\ apiCall.body = {})
           /\ (inRange /\ ~apiCall.found) =>
                (apiCall.status = 404 /\ apiCall.body = {})
           /\ (inRange /\ apiCall.found) =>
                /\ apiCall.status = 200
                /\ apiCall.body = {orders[apiCall.id]}
                /\ orders[apiCall.id].rating =
                     NumberToString(apiCall.input.tenths)
  /\ \A i \in 1..Len(orders) :
       orders[i].rating \in {NoValue, "1", "2", "3", "4", "5"}

\* C17: every stored cart item's quantity is the string of a positive
\* integer: POST /api/cart stores "1" whether or not the body has a quantity
\* field, PATCH /api/cart/:id with a number q >= 1 stores the string of q,
\* and a quantity that is not a number or is below 1 is answered 400.
C17_QuantityPositiveInteger ==
  /\ \A item \in cartItems :
       \E n \in 1..9 : item.quantity = ToString(n)
  /\ (apiCall.route = "POST /api/cart" /\ apiCall.status = 201) =>
       \A item \in apiCall.body : item.quantity = "1"
  /\ apiCall.route = "PATCH /api/cart/:id" =>
       /\ InvalidQuantity(apiCall.input) =>
            (apiCall.status = 400 /\ apiCall.body = {})
       /\ (~InvalidQuantity(apiCall.input) /\ apiCall.found) =>
            /\ apiCall.status = 200
            /\ \A item \in apiCall.body :
                 item.quantity = NumberToString(apiCall.input.tenths)

\* C18: DELETE /api/cart/:id removes the item with that id and no other;
\* removeCartItem answers true (204) exactly when the cart held the id and
\* false (404) otherwise, leaving the cart as it was; an id that has left
\* the cart never comes back, and the listing is the cart.
C18_RemoveOnlyThatItem ==
  /\ [](apiCall.route = "GET /api/cart" => apiCall.body = cartItems)
  /\ [][/\ apiCall'.route = "DELETE /api/cart/:id" =>
             LET id == apiCall'.id IN
             /\ apiCall'.found = (id \in CartItemIds)
             /\ apiCall'.status = (IF id \in CartItemIds THEN 204 ELSE 404)
             /\ cartItems' = {item \in cartItems : item.id # id}
             /\ id \notin CartItemIds => cartItems' = cartItems
        /\ \A id \in 1..cartIds :
             id \notin CartItemIds => id \notin {item.id : item \in cartItems'}
       ]_vars

\* C18 witness: an item has been removed from a cart that still holds
\* another item.
C18_Witness ==
  /\ apiCall.route = "DELETE /api/cart/:id"
  /\ apiCall.found /\ apiCall.status = 204
  /\ apiCall.id \notin CartItemIds
  /\ cartItems # {}

\* The amount is missing, is not numeric or is not positive.
Rejectable(amount) ==
  \/ amount.type = "undefined"
  \/ ParseFloat(amount.chars).nan
  \/ ParseFloat(amount.chars).negative
  \/ ParseFloat(amount.chars).zero

\* C19 as stated: a checkout request whose amount is missing, not numeric or
\* not positive is answered 400 without a call to the provider, and the
\* provider is called only with an amount that parses as a positive number.
C19_InvalidAmountIs400 ==
  checkoutCall.status # 0 =>
    /\ (\/ Rejectable(checkoutCall.amount)
        \/ checkoutCall.amount.chars \in {<<>>, <<"a">>, <<"0">>, <<"-", "5">>})
         => (checkoutCall.status = 400 /\ ~checkoutCall.created)
    /\ checkoutCall.created => ~Rejectable(checkoutCall.amount)

\* C19 amended: without a Stripe client every checkout request is answered
\* 503; with one, a request whose amount is missing, not numeric or not
\* positive is answered 400; in both cases the provider is not called.  The
\* provider is called exactly for the other requests, whose amount parses
\* as a positive number.
C19_InvalidAmountRejected ==
  checkoutCall.status # 0 =>
    LET rejectable ==
          \/ Rejectable(checkoutCall.amount)
          \/ checkoutCall.amount.chars \in {<<>>, <<"a">>, <<"0">>, <<"-", "5">>}
    IN  /\ ~stripeConfigured =>
             (checkoutCall.status = 503 /\ ~checkoutCall.created)
        /\ (stripeConfigured /\ rejectable) =>
             (checkoutCall.status = 400 /\ ~checkoutCall.created)
        /\ (stripeConfigured /\ ~rejectable) =>
             (checkoutCall.created /\ checkoutCall.status \in {200, 500})
        /\ checkoutCall.created => ~Rejectable(checkoutCall.amount)

\* C19 witness: with a Stripe client, the amount "-5" has been answered 400
\* without a call to the provider.
C19_Witness ==
  /\ stripeConfigured
  /\ checkoutCall.amount = [type |-> "string", chars |-> <<"-", "5">>]
  /\ checkoutCall.status = 400
  /\ ~checkoutCall.created

\* C21: for every checkout session id at most one donation is created,
\* however many donation-success requests arrive for it and however they
\* interleave.
C21_OneDonationPerSession ==
  \A sessionId \in DonationSessionIds :
    Cardinality({r \in DonationRequestsOf(sessionId) : req[r].donation # 0}) <= 1

\* The requests that are donation-success redirects.
DonationRequests == {r \in Requests : req[r].kind = "donation"}

\* The session fails one of the checks of lines 721-726.
Refused(session) ==
  \/ session.payment_status # "paid"
  \/ session.metadata_type # "donation"
  \/ session.metadata_donorName = NoValue
  \/ session.metadata_donorEmail = NoValue

ErrorIndicators ==
  {"/?donation_error=missing_session", "/?donation_error=payment_failed",
   "/?donation_error=save_failed", "/?donation_error=processing_failed"}

\* C22: a donation-success request whose session is not paid, is not a
\* donation session or lacks the donor's name or email creates no donation
\* and no marker, and is redirected to an error indicator.
C22_RefusedSessionNoDonation ==
  \A r \in DonationRequests :
    (req[r].session # NoValue /\ Refused(DonationSessionOf(req[r].session))) =>
      /\ req[r].donation = 0
      /\ ~req[r].marked
      /\ ~Recorded(DonationMarker(req[r].session))
      /\ req[r].pc # "insert"
      /\ Done(r) => req[r].response.location \in ErrorIndicators

\* C22 witness: beside a donation that was saved, requests for a session
\* without donor name and for a session of another type have been redirected
\* to the payment_failed indicator.
C22_Witness ==
  /\ donations # <<>>
  /\ \E r \in DonationRequests :
       /\ req[r].session \in {"cs_d3", "cs_d4", "cs_d5"}
       /\ req[r].retrieved /\ Done(r)
       /\ req[r].response.location = "/?donation_error=payment_failed"

\* C23: every donation-success request ends, and ends with one redirect (302)
\* to the success indicator or an error indicator; a request that has been
\* answered is not answered again.
C23_AlwaysOneRedirect ==
  /\ [](\A r \in DonationRequests :
          Done(r) =>
            /\ req[r].response.status = 302
            /\ req[r].response.location
                 \in ErrorIndicators \cup {"/?donation_success=true"})
  /\ [][\A r \in DonationRequests : Done(r) => req'[r] = req[r]]_vars
  /\ \A r \in Requests : [](req[r].kind = "donation" => <>Done(r))

\* C23 witness: requests have ended on the success indicator and on the
\* save_failed indicator.
C23_Witness ==
  /\ \E r \in DonationRequests :
       Done(r) /\ req[r].response.location = "/?donation_success=true"
  /\ \E r \in DonationRequests :
       Done(r) /\ req[r].response.location = "/?donation_error=save_failed"

\* The requests to the routes that store a record and then notify by email.
NotifyingRequests ==
  {r \in Requests : req[r].kind \in {"order", "manual", "customOrder", "contact"}}

\* C24: a request to POST /api/orders, /api/custom-orders, /api/contact or
\* /api/payment/manual whose notification failed after its record was stored
\* is still answered with success (201, or 200 with success: true).
C24_EmailFailureStillSuccess ==
  \A r \in NotifyingRequests :
    req[r].emailFailed =>
      /\ Done(r)
      /\ req[r].response.status \in {200, 201}

\* C25: a create request (orders, custom orders, contact, cart) answered 400
\* has stored no record and sent no email.
C25_RejectedCreateNoEffect ==
  /\ \A r \in Requests :
       (/\ req[r].kind \in {"order", "customOrder", "contact"}
        /\ Done(r)
        /\ req[r].response.status = 400) =>
         /\ req[r].orderNumber = NoValue
         /\ req[r].record = 0
         /\ req[r].emailStep = 0
  /\ (apiCall.route = "POST /api/cart" /\ apiCall.status = 400) =>
       (apiCall.id = 0 /\ apiCall.body = {})

\* The derivation looked at the charge details: the session has a payment
\* intent and its charge carries payment-method details.
DetailsSeen ==
  /\ orderDataCall.made
  /\ orderDataCall.session.payment_intent # NoValue
  /\ orderDataCall.pmDetails.present

\* C26: a card payment made through the Apple Pay or Google Pay wallet gives
\* the order the label "Apple Pay" or "Google Pay"; a card payment with no
\* such wallet gives it "Credit/Debit Card".
C26_WalletCardLabel ==
  (DetailsSeen /\ orderDataCall.pmDetails.type = TypeCard) =>
    LET wallet == orderDataCall.pmDetails.wallet
        label  == orderDataCall.orderData.paymentMethod
    IN  /\ wallet = "apple_pay" => label = "Apple Pay"
        /\ wallet = "google_pay" => label = "Google Pay"
        /\ wallet \notin {"apple_pay", "google_pay"} =>
             label = "Credit/Debit Card"

\* C26 witness: a card payment through Apple Pay was labelled "Apple Pay".
C26_Witness ==
  /\ DetailsSeen
  /\ orderDataCall.pmDetails.type = TypeCard
  /\ orderDataCall.pmDetails.wallet = "apple_pay"
  /\ orderDataCall.orderData.paymentMethod = "Apple Pay"

\* C27: without payment intent or without payment-method details the label
\* is "Unknown"; with details of an unrecognized type it is the type code
\* with its first character upper-cased; the recognized types other than
\* card have their fixed labels.
C27_LabelOfType ==
  LET type  == orderDataCall.pmDetails.type
      label == orderDataCall.orderData.paymentMethod
  IN  /\ (orderDataCall.made /\ ~DetailsSeen) => label = "Unknown"
      /\ DetailsSeen =>
           /\ type \notin RecognizedTypes =>
                label = IF type = <<>> THEN ""
                        ELSE ToUpperCase(Head(type)) \o Join(Tail(type))
           /\ type = TypeLink => label = "Link"
           /\ type = TypeKlarna => label = "Klarna"
           /\ type = TypeCashapp => label = "Cash App"
           /\ type = TypeUsBankAccount => label = "ACH Bank Transfer"
           /\ type = TypeCrypto => label = "Cryptocurrency"

\* C27 witness: details of the unrecognized type paypal were labelled
\* "Paypal".
C27_Witness ==
  /\ DetailsSeen
  /\ orderDataCall.pmDetails.type = TypePaypal
  /\ orderDataCall.orderData.paymentMethod = "Paypal"

\* C28: the order's customer name and email are the ones of the session's
\* metadata, else the ones of the checkout details, else "Unknown" and the
\* empty string; its amount is the session's total divided by 100.
C28_MetadataThenDetails ==
  orderDataCall.made =>
    LET session == orderDataCall.session
        order   == orderDataCall.orderData
    IN  /\ order.customerName =
             OrElse(session.metadata_customerName,
                    OrElse(session.details_name, "Unknown"))
        /\ order.customerEmail =
             OrElse(session.metadata_customerEmail,
                    OrElse(session.details_email, ""))
        /\ order.amount = AmountString(session.amount_total)

\* The order with its rating left out.
Unrated(order) == [order EXCEPT !.rating = NoValue]

\* C29: after its creation an order keeps its id, order number and creation
\* timestamp; a step changes at most the rating of one order, a rating
\* update that of the order it addresses; no step removes an order.
C29_OrdersOnlyRated ==
  [][/\ Len(orders') >= Len(orders)
     /\ \A i \in 1..Len(orders) :
          /\ orders'[i].id = orders[i].id
          /\ orders'[i].orderNumber = orders[i].orderNumber
          /\ orders'[i].createdAt = orders[i].createdAt
          /\ Unrated(orders'[i]) = Unrated(orders[i])
     /\ Cardinality({i \in 1..Len(orders) : orders'[i] # orders[i]}) <= 1
     /\ (apiCall' # apiCall /\ apiCall'.route = "PATCH /api/orders/:id/rating")
          => /\ Len(orders') = Len(orders)
             /\ \A i \in 1..Len(orders) :
                  i # apiCall'.id => orders'[i] = orders[i]]_vars

\* C29 witness: of two orders one has been rated by an accepted rating
\* update and the other has no rating.
C29_Witness ==
  /\ apiCall.route = "PATCH /api/orders/:id/rating"
  /\ apiCall.status = 200
  /\ \E i, j \in 1..Len(orders) :
       /\ i = apiCall.id
       /\ orders[i].rating # NoValue
       /\ orders[j].rating = NoValue

\* C30: isEventProcessed(e) answers true whenever the durable table holds a
\* record of e, whichever process wrote it and whether or not the read of
\* the table succeeds.
C30_DurableRecordFound ==
  (/\ ledgerCall.op = "isEventProcessed"
   /\ ledgerCall.id \in webhookEvents) => ledgerCall.answer

\* The messages sendOrderConfirmation has sent for an order number.
ConfirmationsOf(orderNumber) == {m \in emails : m.orderNumber = orderNumber}

\* The requests that called sendOrderConfirmation.
ConfirmingRequests == {r \in Requests : req[r].orderNumber # NoValue}

\* C31: sendOrderConfirmation sends to the customer, then to the primary and
\* then to the secondary business address; a message is sent only after all
\* the messages before it were sent; a failed send ends the call with the
\* failure passed to the caller, and the sends after it are never attempted.
C31_SendsInOrderUntilFailure ==
  /\ [](\A r \in ConfirmingRequests :
          LET sent  == ConfirmationsOf(req[r].orderNumber)
              order == CHOOSE o \in {orders[i] : i \in 1..Len(orders)} :
                         o.orderNumber = req[r].orderNumber
          IN  /\ \A m \in sent :
                   /\ m.step \in 1..ConfirmationSends
                   /\ \A k \in 1..(m.step - 1) : \E n \in sent : n.step = k
                   /\ m.step = 1 => m.to = order.customerEmail
                   /\ m.step = 2 => m.to = "allouzimohammed53@gmail.com"
                   /\ m.step = 3 => m.to = "orders@driftv8.xyz"
              /\ req[r].emailFailed =>
                   /\ Done(r)
                   /\ req[r].response.status \notin {200, 201}
                   /\ {m.step : m \in sent} = 1..(req[r].emailStep - 1))
  /\ [][\A r \in ConfirmingRequests :
          req[r].emailFailed =>
            ConfirmationsOf(req[r].orderNumber)' =
              ConfirmationsOf(req[r].orderNumber)]_vars

\* C31 witness: the customer confirmation of an order went out, the send to
\* the primary business address failed, and the request has been answered
\* with that failure; nothing went to a business address.
C31_Witness ==
  \E r \in ConfirmingRequests :
    /\ req[r].emailFailed /\ Done(r)
    /\ req[r].emailStep = 2
    /\ {m.step : m \in ConfirmationsOf(req[r].orderNumber)} = {1}

\* How far along the handler a request is: each awaited call has its place,
\* the three sends of the confirmation one each.
PathRank(q) ==
  CASE q.pc = "idle"     -> 0
    [] q.pc = "select"   -> 1
    [] q.pc = "insert"   -> 2
    [] q.pc = "retrieve" -> 3
    [] q.pc = "email"    -> 3 + q.emailStep
    [] OTHER             -> 4 + ConfirmationSends

\* C32: every execution of handleStripeWebhook ends, with one response: a
\* request has no response before it ends and has one of the handler's
\* answers (503, 400, 200 received, 500) when it has ended; an answered
\* request is not answered again; every step of a request takes it further
\* along the handler, so that no call is made twice.
C32_OneResponseNoRetry ==
  /\ [](\A r \in Deliveries :
          /\ ~Done(r) => req[r].response = NoResponse
          /\ Done(r) =>
               /\ req[r].response.status \in {503, 400, 200, 500}
               /\ req[r].response.received = (req[r].response.status = 200))
  /\ [][\A r \in Requests :
          /\ (req[r].kind = "webhook" /\ Done(r)) => req'[r] = req[r]
          /\ (req'[r].kind = "webhook" /\ req'[r] # req[r]) =>
               PathRank(req'[r]) > PathRank(req[r])]_vars
  /\ \A r \in Requests : [](req[r].kind = "webhook" => <>Done(r))

\* C32 witness: one delivery has ended with the order created and the
\* three messages sent, another in the outer catch.
C32_Witness ==
  /\ \E r \in Deliveries :
       /\ Done(r) /\ Acknowledged(r)
       /\ req[r].orderNumber # NoValue
       /\ req[r].emailStep = ConfirmationSends
  /\ \E r \in Deliveries : Done(r) /\ req[r].response.status = 500

====
